---------------------------- MODULE Spec2Model ----------------------------
(***************************************************************************)
(* Register-level model of the MCP7940 real-time-clock driver              *)
(* (src/mcp7940.c, src/mcp7940.h).                                         *)
(*                                                                         *)
(* The device is a byte-addressed register file.  Every driver function is *)
(* an operator on a device record d = [regs, bus, ok, val]:                *)
(*   regs  the register file,                                              *)
(*   bus   the log of bus transactions issued so far in the current call,  *)
(*   ok    whether the device acknowledges (stores) writes in this call,   *)
(*   val   the value the function returns.                                 *)
(* One action per public function executes the whole call.                 *)
(*                                                                         *)
(* The device is a plain memory: a write that the device acknowledges      *)
(* stores the byte, a read returns the byte stored.  The device does not   *)
(* tick and does not update its status bits on its own.                    *)
(*                                                                         *)
(* Each specification below starts from a set of device images and fixes   *)
(* how many calls a run makes: a claim about one call is checked on runs   *)
(* of one call over every argument byte, a claim about a call and the      *)
(* call after it on runs of two calls, and the sample runs of the whole    *)
(* driver on up to MaxOps calls.                                           *)
(***************************************************************************)
EXTENDS Integers, Sequences, FiniteSets, TLC

Byte == 0 .. 255

(***************************************************************************)
(* C integer arithmetic.  Operands are promoted to int (16 bit on the AVR  *)
(* target); a value stored in an unsigned char keeps its low 8 bits.       *)
(***************************************************************************)
RECURSIVE BitAnd(_, _)
BitAnd(x, y) ==
    IF x = 0 \/ y = 0 THEN 0
    ELSE (x % 2) * (y % 2) + 2 * BitAnd(x \div 2, y \div 2)

BitOr(x, y) == x + y - BitAnd(x, y)

\* ~x on a 16-bit int, as an unsigned bit pattern
BitNot(x) == 65535 - x

\* the bit pattern of a (possibly negative) int
ToInt16(x) == x % 65536

\* conversion to unsigned char
ToUChar(x) == x % 256

ShiftRight(x, k) == x \div (2 ^ k)

ShiftLeft(x, k) == x * (2 ^ k)

(***************************************************************************)
(* Register addresses and bit masks (src/mcp7940.h).                       *)
(***************************************************************************)
MCP7940_ADDRESS == 111
MCP7940_IO_TIMEOUT_MS == 1

MCP7940_RTCSEC == 0
MCP7940_ST_bm == 128
MCP7940_SECTEN_bm == 112
MCP7940_RTCMIN == 1
MCP7940_MINTEN_bm == 112
MCP7940_RTCHOUR == 2
MCP7940_HRTEN_bm == 48
MCP7940_RTCWKDAY == 3
MCP7940_OSCRUN_bm == 32
MCP7940_PWRFAIL_bm == 16
MCP7940_VBATEN_bm == 8
MCP7940_RTCDATE == 4
MCP7940_DATETEN_bm == 48
MCP7940_RTCMTH == 5
MCP7940_LPYR_bm == 32
MCP7940_MTHTEN_bm == 16
MCP7940_LPYR_bp == 5
MCP7940_RTCYEAR == 6
MCP7940_YRTEN_bm == 240
MCP7940_CONTROL == 7
MCP7940_OUT_bm == 128
MCP7940_SQWEN_bm == 64
MCP7940_ALM1EN_bm == 32
MCP7940_ALM0EN_bm == 16
MCP7940_EXTOSC_bm == 8
MCP7940_CSTRIM_bm == 4
MCP7940_SQWFS1_bm == 2
MCP7940_SQWFS0_bm == 1
MCP7940_OSCTRIM == 8
MCP7940_PWRDNMIN == 24
MCP7940_PWRUPMIN == 28
MCP7940_PWRDNHOUR == 25
MCP7940_PWRUPHOUR == 29
MCP7940_PWRDNDATE == 26
MCP7940_PWRUPDATE == 30
MCP7940_PWRWEEKDAY_bp == 5
MCP7940_PWRDNMTH == 27
MCP7940_PWRUPMTH == 31

MCP7940_MFP_MODE_OUTPUT == 0
MCP7940_MFP_MODE_SQUARE_WAVE == 1
MCP7940_MFP_MODE_ALARM == 2

MCP7940_Status_None == 0
MCP7940_Status_Battery_Enabled == MCP7940_VBATEN_bm
MCP7940_Status_Power_Fail == MCP7940_PWRFAIL_bm
MCP7940_Status_Oscillator_Running == MCP7940_OSCRUN_bm
MCP7940_LeapYear_False == 0
MCP7940_LeapYear_True == 1

MCP7940_Error_None == 0
MCP7940_Error_Fail == 1
MCP7940_Mode_Disable == 0
MCP7940_Mode_Enable == 1
MCP7940_Trim_Substract == 0
MCP7940_Trim_Add == 1
MCP7940_Register_Current_Time == 0
MCP7940_Register_Power_Down_Time == 1
MCP7940_Register_Power_Up_Time == 2

\* the addresses the driver can put on the bus: the timekeeping, control and
\* trim registers, the power-fail time stamps, and address 0x20 (the first
\* SRAM byte, which mcp7940_leapyear addresses)
Addr == (0 .. 8) \cup (24 .. 32)

weeksdays == << "MON", "TUE", "WED", "THU", "FRI", "SAT", "SUN", "???" >>

(***************************************************************************)
(* Bus transactions.  Besides the log of transactions the device record    *)
(* keeps, in wire, the calls the driver makes to the bus layer and to the  *)
(* timer, each as << function, arguments >>, in the order it makes them.   *)
(***************************************************************************)
Dev(r, ok) == [regs |-> r, bus |-> << >>, wire |-> << >>, ok |-> ok, val |-> 0]

\* faulty variant: a write returns without the settle delay
mcp7940_write_no_settle(d, address, data) ==
    [d EXCEPT !.regs = IF d.ok THEN [@ EXCEPT ![address] = data] ELSE @,
              !.bus  = Append(@, << "W", address, data >>),
              !.wire = @ \o << << "twi_start", << >> >>,
                                << "twi_address", << MCP7940_ADDRESS, "TWI_WRITE" >> >>,
                                << "twi_set", << address >> >>,
                                << "twi_set", << data >> >>,
                                << "twi_stop", << >> >> >>]

mcp7940_write(d, address, data) ==
    [d EXCEPT !.regs = IF d.ok THEN [@ EXCEPT ![address] = data] ELSE @,
              !.bus  = Append(@, << "W", address, data >>),
              !.wire = @ \o << << "twi_start", << >> >>,
                                << "twi_address", << MCP7940_ADDRESS, "TWI_WRITE" >> >>,
                                << "twi_set", << address >> >>,
                                << "twi_set", << data >> >>,
                                << "twi_stop", << >> >>,
                                << "systick_timer_wait_ms",
                                   << MCP7940_IO_TIMEOUT_MS >> >> >>]

mcp7940_read(d, address) ==
    [d EXCEPT !.bus = Append(@, << "R", address, d.regs[address] >>),
              !.wire = @ \o << << "twi_start", << >> >>,
                                << "twi_address", << MCP7940_ADDRESS, "TWI_WRITE" >> >>,
                                << "twi_set", << address >> >>,
                                << "twi_address", << MCP7940_ADDRESS, "TWI_READ" >> >>,
                                << "twi_get", << d.regs[address], "TWI_NACK" >> >>,
                                << "twi_stop", << >> >>,
                                << "systick_timer_wait_ms",
                                   << MCP7940_IO_TIMEOUT_MS >> >> >>,
              !.val = d.regs[address]]

(***************************************************************************)
(* Register codec.                                                         *)
(***************************************************************************)
\* faulty variant: the ones digit taken from three bits instead of four
mcp7940_tobinary_ones3(value, mask) ==
    ToUChar(ShiftRight(BitAnd(mask, value), 4) * 10 + BitAnd(7, value))

\* faulty variant: the tens digit taken without the field's mask
mcp7940_tobinary_nomask(value, mask) ==
    ToUChar(ShiftRight(value, 4) * 10 + BitAnd(15, value))

mcp7940_tobinary(value, mask) ==
    ToUChar(ShiftRight(BitAnd(mask, value), 4) * 10 + BitAnd(15, value))

mcp7940_tobcd(value) ==
    ToUChar(BitOr(ShiftLeft(value \div 10, 4), value % 10))

mcp7940_data(d, address, mask) ==
    LET r == mcp7940_read(d, address)
    IN  [r EXCEPT !.val = mcp7940_tobinary(r.val, mask)]

\* faulty variant: the table is indexed by the device value itself
mcp7940_weekday_string_no_offset(day) ==
    weeksdays[BitAnd(7, ToInt16(day)) + 1]

\* faulty variant: every value above 7 gets the fallback label
mcp7940_weekday_string_saturating(day) ==
    IF day \in 1 .. 7 THEN weeksdays[day] ELSE weeksdays[8]

mcp7940_weekday_string(day) ==
    weeksdays[BitAnd(7, ToInt16(day - 1)) + 1]


(***************************************************************************)
(* Configuration controller.  The build-time switches of mcp7940.h are the *)
(* fields of the configuration record cfg:                                 *)
(*   extosc    MCP7940_USE_EXTOSC is defined                               *)
(*   battery   MCP7940_BATTERY_BACKUP_EN is defined                        *)
(*   mfp       MCP7940_MFP_MODE                                            *)
(*   crstrim   MCP7940_SQW_CRSTRIM_EN is defined                           *)
(*   prescaler MCP7940_MFP_SQUARE_WAVE_PRESCALER                           *)
(*   alarm     MCP7940_MFP_ALARM_MODE                                      *)
(***************************************************************************)
\* faulty variant: the flag is written without the bits read
mcp7940_battery_flag_only(d, mode) ==
    LET r == mcp7940_read(d, MCP7940_RTCWKDAY)
    IN  IF mode = MCP7940_Mode_Enable
        THEN mcp7940_write(r, MCP7940_RTCWKDAY, MCP7940_VBATEN_bm)
        ELSE mcp7940_write(r, MCP7940_RTCWKDAY, 0)

mcp7940_battery(d, mode) ==
    LET r == mcp7940_read(d, MCP7940_RTCWKDAY)
    IN  IF mode = MCP7940_Mode_Enable
        THEN mcp7940_write(r, MCP7940_RTCWKDAY,
                           ToUChar(BitOr(MCP7940_VBATEN_bm, r.val)))
        ELSE mcp7940_write(r, MCP7940_RTCWKDAY,
                           ToUChar(BitAnd(BitNot(MCP7940_VBATEN_bm), r.val)))

\* faulty variant: the ST bit of RTCSEC is used in every build
mcp7940_oscillator_crystal_only(d, mode, c) ==
    LET r == mcp7940_read(d, MCP7940_RTCSEC)
    IN  IF mode = MCP7940_Mode_Enable
        THEN mcp7940_write(r, MCP7940_RTCSEC,
                           ToUChar(BitOr(MCP7940_ST_bm, r.val)))
        ELSE mcp7940_write(r, MCP7940_RTCSEC,
                           ToUChar(BitAnd(BitNot(MCP7940_ST_bm), r.val)))

mcp7940_oscillator(d, mode, c) ==
    IF c.extosc
    THEN LET r == mcp7940_read(d, MCP7940_CONTROL)
         IN  IF mode = MCP7940_Mode_Enable
             THEN mcp7940_write(r, MCP7940_CONTROL,
                                ToUChar(BitOr(MCP7940_EXTOSC_bm, r.val)))
             ELSE mcp7940_write(r, MCP7940_CONTROL,
                                ToUChar(BitAnd(BitNot(MCP7940_EXTOSC_bm), r.val)))
    ELSE LET r == mcp7940_read(d, MCP7940_RTCSEC)
         IN  IF mode = MCP7940_Mode_Enable
             THEN mcp7940_write(r, MCP7940_RTCSEC,
                                ToUChar(BitOr(MCP7940_ST_bm, r.val)))
             ELSE mcp7940_write(r, MCP7940_RTCSEC,
                                ToUChar(BitAnd(BitNot(MCP7940_ST_bm), r.val)))

\* faulty variant: the prescaler is written with coarse trim as well
InitControlBits_always_prescaler(c) ==
    BitOr(IF c.crstrim THEN MCP7940_CSTRIM_bm ELSE 0,
          IF c.mfp = MCP7940_MFP_MODE_SQUARE_WAVE
          THEN BitOr(MCP7940_SQWEN_bm, c.prescaler)
          ELSE IF c.mfp = MCP7940_MFP_MODE_ALARM
               THEN c.alarm
               ELSE 0)

\* the configuration part of the byte mcp7940_init writes to CONTROL
InitControlBits(c) ==
    BitOr(IF c.crstrim THEN MCP7940_CSTRIM_bm ELSE 0,
          IF c.mfp = MCP7940_MFP_MODE_SQUARE_WAVE
          THEN BitOr(MCP7940_SQWEN_bm, IF ~c.crstrim THEN c.prescaler ELSE 0)
          ELSE IF c.mfp = MCP7940_MFP_MODE_ALARM
               THEN c.alarm
               ELSE 0)

\* faulty variant: the oscillator is enabled before CONTROL is configured
mcp7940_init_oscillator_first(d, c) ==
    LET b    == mcp7940_battery(d, IF c.battery THEN MCP7940_Mode_Enable
                                               ELSE MCP7940_Mode_Disable)
        o    == mcp7940_oscillator(b, MCP7940_Mode_Enable, c)
        r    == mcp7940_read(o, MCP7940_CONTROL)
        temp == BitAnd(r.val, MCP7940_EXTOSC_bm)
    IN  mcp7940_write(r, MCP7940_CONTROL,
                      ToUChar(BitOr(temp, InitControlBits(c))))

\* faulty variant: the whole CONTROL byte read is carried over
mcp7940_init_keeps_control(d, c) ==
    LET b    == mcp7940_battery(d, IF c.battery THEN MCP7940_Mode_Enable
                                               ELSE MCP7940_Mode_Disable)
        r    == mcp7940_read(b, MCP7940_CONTROL)
        w    == mcp7940_write(r, MCP7940_CONTROL,
                              ToUChar(BitOr(r.val, InitControlBits(c))))
    IN  mcp7940_oscillator(w, MCP7940_Mode_Enable, c)

mcp7940_init(d, c) ==
    LET b    == mcp7940_battery(d, IF c.battery THEN MCP7940_Mode_Enable
                                               ELSE MCP7940_Mode_Disable)
        r    == mcp7940_read(b, MCP7940_CONTROL)
        temp == BitAnd(r.val, MCP7940_EXTOSC_bm)
        w    == mcp7940_write(r, MCP7940_CONTROL,
                              ToUChar(BitOr(temp, InitControlBits(c))))
    IN  mcp7940_oscillator(w, MCP7940_Mode_Enable, c)

\* faulty variant: the value is not masked to seven bits
mcp7940_trimming_unmasked(d, mode, value) ==
    LET v2 == IF mode = MCP7940_Trim_Add THEN ToUChar(BitOr(value, 128)) ELSE value
        w  == mcp7940_write(d, MCP7940_OSCTRIM, v2)
        r  == mcp7940_read(w, MCP7940_OSCTRIM)
    IN  [r EXCEPT !.val = IF r.val = v2 THEN MCP7940_Error_None
                                         ELSE MCP7940_Error_Fail]

\* faulty variant: the direction bit is set only with a non-zero magnitude
mcp7940_trimming_zero_clears(d, mode, value) ==
    LET v1 == BitAnd(value, 127)
        v2 == IF mode = MCP7940_Trim_Add /\ v1 # 0
              THEN ToUChar(BitOr(v1, 128)) ELSE v1
        w  == mcp7940_write(d, MCP7940_OSCTRIM, v2)
        r  == mcp7940_read(w, MCP7940_OSCTRIM)
    IN  [r EXCEPT !.val = IF r.val = v2 THEN MCP7940_Error_None
                                         ELSE MCP7940_Error_Fail]

\* faulty variant: a mismatching readback is retried once
mcp7940_trimming_retry(d, mode, value) ==
    LET v1 == BitAnd(value, 127)
        v2 == IF mode = MCP7940_Trim_Add THEN ToUChar(BitOr(v1, 128)) ELSE v1
        w  == mcp7940_write(d, MCP7940_OSCTRIM, v2)
        r  == mcp7940_read(w, MCP7940_OSCTRIM)
        w2 == mcp7940_write(r, MCP7940_OSCTRIM, v2)
        r2 == mcp7940_read(w2, MCP7940_OSCTRIM)
    IN  IF r.val = v2
        THEN [r EXCEPT !.val = MCP7940_Error_None]
        ELSE [r2 EXCEPT !.val = IF r2.val = v2 THEN MCP7940_Error_None
                                                ELSE MCP7940_Error_Fail]

\* faulty variant: after a mismatch the previous content is written back
mcp7940_trimming_rollback(d, mode, value) ==
    LET v1 == BitAnd(value, 127)
        v2 == IF mode = MCP7940_Trim_Add THEN ToUChar(BitOr(v1, 128)) ELSE v1
        w  == mcp7940_write(d, MCP7940_OSCTRIM, v2)
        r  == mcp7940_read(w, MCP7940_OSCTRIM)
        b  == mcp7940_write(r, MCP7940_OSCTRIM, d.regs[MCP7940_OSCTRIM])
    IN  IF r.val = v2
        THEN [r EXCEPT !.val = MCP7940_Error_None]
        ELSE [b EXCEPT !.val = MCP7940_Error_Fail]

mcp7940_trimming(d, mode, value) ==
    LET v1 == BitAnd(value, 127)
        v2 == IF mode = MCP7940_Trim_Add THEN ToUChar(BitOr(v1, 128)) ELSE v1
        w  == mcp7940_write(d, MCP7940_OSCTRIM, v2)
        r  == mcp7940_read(w, MCP7940_OSCTRIM)
    IN  [r EXCEPT !.val = IF r.val = v2 THEN MCP7940_Error_None
                                         ELSE MCP7940_Error_Fail]

\* faulty variant: only bits 6 and 7 are masked off
mcp7940_status_with_weekday(d) ==
    LET r == mcp7940_read(d, MCP7940_RTCWKDAY)
    IN  [r EXCEPT !.val = BitAnd(r.val, 63)]

\* faulty variant: reading the status clears the power-fail flag
mcp7940_status_clears_flag(d) ==
    LET r == mcp7940_read(d, MCP7940_RTCWKDAY)
        w == mcp7940_write(r, MCP7940_RTCWKDAY,
                           ToUChar(BitAnd(BitNot(MCP7940_PWRFAIL_bm), r.val)))
    IN  [w EXCEPT !.val = BitAnd(r.val, 56)]

mcp7940_status(d) ==
    LET r == mcp7940_read(d, MCP7940_RTCWKDAY)
    IN  [r EXCEPT !.val = BitAnd(r.val, BitOr(MCP7940_OSCRUN_bm,
                                   BitOr(MCP7940_PWRFAIL_bm, MCP7940_VBATEN_bm)))]

\* faulty variant: the OUT bit is written without the bits read
mcp7940_mfp_output_flag_only(d, output) ==
    LET r == mcp7940_read(d, MCP7940_CONTROL)
    IN  IF output # 0
        THEN mcp7940_write(r, MCP7940_CONTROL, MCP7940_OUT_bm)
        ELSE mcp7940_write(r, MCP7940_CONTROL, 0)

mcp7940_mfp_output(d, output) ==
    LET r == mcp7940_read(d, MCP7940_CONTROL)
    IN  IF output # 0
        THEN mcp7940_write(r, MCP7940_CONTROL,
                           ToUChar(BitOr(MCP7940_OUT_bm, r.val)))
        ELSE mcp7940_write(r, MCP7940_CONTROL,
                           ToUChar(BitAnd(BitNot(MCP7940_OUT_bm), r.val)))

(***************************************************************************)
(* Register block selection and field reads.                               *)
(***************************************************************************)
mcp7940_hour(d, data) ==
    LET temp == CASE data = MCP7940_Register_Power_Down_Time -> MCP7940_PWRDNHOUR
                  [] data = MCP7940_Register_Power_Up_Time   -> MCP7940_PWRUPHOUR
                  [] OTHER                                   -> MCP7940_RTCHOUR
    IN  mcp7940_data(d, temp, MCP7940_HRTEN_bm)

mcp7940_minute(d, data) ==
    LET temp == CASE data = MCP7940_Register_Power_Down_Time -> MCP7940_PWRDNMIN
                  [] data = MCP7940_Register_Power_Up_Time   -> MCP7940_PWRUPMIN
                  [] OTHER                                   -> MCP7940_RTCMIN
    IN  mcp7940_data(d, temp, MCP7940_MINTEN_bm)

mcp7940_second(d) == mcp7940_data(d, MCP7940_RTCSEC, MCP7940_SECTEN_bm)

mcp7940_weekday(d, data) ==
    CASE data = MCP7940_Register_Power_Down_Time ->
           LET r == mcp7940_read(d, MCP7940_PWRDNMTH)
           IN  [r EXCEPT !.val = ShiftRight(BitAnd(224, r.val), MCP7940_PWRWEEKDAY_bp)]
      [] data = MCP7940_Register_Power_Up_Time ->
           LET r == mcp7940_read(d, MCP7940_PWRUPMTH)
           IN  [r EXCEPT !.val = ShiftRight(BitAnd(224, r.val), MCP7940_PWRWEEKDAY_bp)]
      [] OTHER ->
           LET r == mcp7940_read(d, MCP7940_RTCWKDAY)
           IN  [r EXCEPT !.val = BitAnd(7, r.val)]

mcp7940_day(d, data) ==
    LET temp == CASE data = MCP7940_Register_Power_Down_Time -> MCP7940_PWRDNDATE
                  [] data = MCP7940_Register_Power_Up_Time   -> MCP7940_PWRUPDATE
                  [] OTHER                                   -> MCP7940_RTCDATE
    IN  mcp7940_data(d, temp, MCP7940_DATETEN_bm)

\* faulty variant: the two time-stamp blocks are exchanged
mcp7940_month_swapped(d, data) ==
    LET temp == CASE data = MCP7940_Register_Power_Down_Time -> MCP7940_PWRUPMTH
                  [] data = MCP7940_Register_Power_Up_Time   -> MCP7940_PWRDNMTH
                  [] OTHER                                   -> MCP7940_RTCMTH
    IN  mcp7940_data(d, temp, MCP7940_MTHTEN_bm)

mcp7940_month(d, data) ==
    LET temp == CASE data = MCP7940_Register_Power_Down_Time -> MCP7940_PWRDNMTH
                  [] data = MCP7940_Register_Power_Up_Time   -> MCP7940_PWRUPMTH
                  [] OTHER                                   -> MCP7940_RTCMTH
    IN  mcp7940_data(d, temp, MCP7940_MTHTEN_bm)

mcp7940_year(d) == mcp7940_data(d, MCP7940_RTCYEAR, MCP7940_YRTEN_bm)

(***************************************************************************)
(* Time/date accessor.  A structure-filling function returns the device    *)
(* record together with the structure it filled.                           *)
(***************************************************************************)
\* faulty variant: the seconds are read for every register set
mcp7940_time_reads_second(d, reg) ==
    LET h == mcp7940_hour(d, reg)
        m == mcp7940_minute(h, reg)
        s == mcp7940_second(m)
    IN  [d |-> s, time |-> << h.val, m.val, s.val >>]

mcp7940_time(d, reg) ==
    LET h == mcp7940_hour(d, reg)
        m == mcp7940_minute(h, reg)
    IN  IF reg = MCP7940_Register_Current_Time
        THEN LET s == mcp7940_second(m)
             IN  [d |-> s, time |-> << h.val, m.val, s.val >>]
        ELSE [d |-> m, time |-> << h.val, m.val, 0 >>]

mcp7940_date(d, reg) ==
    LET a == mcp7940_day(d, reg)
        m == mcp7940_month(a, reg)
    IN  IF reg = MCP7940_Register_Current_Time
        THEN LET y == mcp7940_year(m)
             IN  [d |-> y, date |-> << a.val, m.val, y.val >>]
        ELSE [d |-> m, date |-> << a.val, m.val, 0 >>]

mcp7940_datetime(d, reg) ==
    LET t == mcp7940_time(d, reg)
        a == mcp7940_date(t.d, reg)
    IN  [d |-> a.d, time |-> t.time, date |-> a.date]

mcp7940_leapyear(d) ==
    LET r == mcp7940_read(d, MCP7940_LPYR_bm)
    IN  [r EXCEPT !.val = ShiftRight(BitAnd(7, r.val), MCP7940_LPYR_bp)]

(***************************************************************************)
(* Writers.                                                                *)
(***************************************************************************)
\* faulty variant: the zero-based index is written as it is
mcp7940_setweekday_zero_based(d, weekday) ==
    IF weekday >= 7
    THEN [d EXCEPT !.val = MCP7940_Error_Fail]
    ELSE LET r == mcp7940_read(d, MCP7940_RTCWKDAY)
             w == mcp7940_write(r, MCP7940_RTCWKDAY,
                                ToUChar(BitOr(BitAnd(248, r.val),
                                              BitAnd(7, weekday))))
         IN  [w EXCEPT !.val = MCP7940_Error_None]

\* faulty variant: index 7 passes the range check
mcp7940_setweekday_off_by_one(d, weekday) ==
    IF weekday > 7
    THEN [d EXCEPT !.val = MCP7940_Error_Fail]
    ELSE LET r == mcp7940_read(d, MCP7940_RTCWKDAY)
             w == mcp7940_write(r, MCP7940_RTCWKDAY,
                                ToUChar(BitOr(BitAnd(248, r.val),
                                              BitAnd(7, weekday + 1))))
         IN  [w EXCEPT !.val = MCP7940_Error_None]

\* faulty variant: the weekday is written as the whole byte
mcp7940_setweekday_whole_byte(d, weekday) ==
    IF weekday >= 7
    THEN [d EXCEPT !.val = MCP7940_Error_Fail]
    ELSE LET r == mcp7940_read(d, MCP7940_RTCWKDAY)
             w == mcp7940_write(r, MCP7940_RTCWKDAY, BitAnd(7, weekday + 1))
         IN  [w EXCEPT !.val = MCP7940_Error_None]

mcp7940_setweekday(d, weekday) ==
    IF weekday >= 7
    THEN [d EXCEPT !.val = MCP7940_Error_Fail]
    ELSE LET r == mcp7940_read(d, MCP7940_RTCWKDAY)
             w == mcp7940_write(r, MCP7940_RTCWKDAY,
                                ToUChar(BitOr(BitAnd(248, r.val),
                                              BitAnd(7, weekday + 1))))
         IN  [w EXCEPT !.val = MCP7940_Error_None]

mcp7940_setdata(d, address1, value1, address2, value2, address3, value3) ==
    LET w1 == mcp7940_write(d, address1, mcp7940_tobcd(value1))
        w2 == mcp7940_write(w1, address2, mcp7940_tobcd(value2))
    IN  mcp7940_write(w2, address3, mcp7940_tobcd(value3))

\* The validators live outside the driver (utils/time/validate.h); they are
\* modelled by the ranges the driver documents for its arguments.
validate_time(time) ==
    time[1] \in 0 .. 23 /\ time[2] \in 0 .. 59 /\ time[3] \in 0 .. 59

validate_date(date) ==
    date[1] \in 1 .. 31 /\ date[2] \in 1 .. 12 /\ date[3] \in 0 .. 99

\* faulty variant: the oscillator is enabled before the time is written
mcp7940_settime_enable_first(d, time, c) ==
    IF ~validate_time(time)
    THEN [d EXCEPT !.val = MCP7940_Error_Fail]
    ELSE LET o == mcp7940_oscillator(d, MCP7940_Mode_Enable, c)
             w == mcp7940_setdata(o, MCP7940_RTCHOUR, time[1],
                                     MCP7940_RTCMIN,  time[2],
                                     MCP7940_RTCSEC,  time[3])
         IN  [w EXCEPT !.val = MCP7940_Error_None]

\* faulty variant: the oscillator is not enabled after the time is written
mcp7940_settime_no_enable(d, time, c) ==
    IF ~validate_time(time)
    THEN [d EXCEPT !.val = MCP7940_Error_Fail]
    ELSE LET w == mcp7940_setdata(d, MCP7940_RTCHOUR, time[1],
                                     MCP7940_RTCMIN,  time[2],
                                     MCP7940_RTCSEC,  time[3])
         IN  [w EXCEPT !.val = MCP7940_Error_None]

mcp7940_settime(d, time, c) ==
    IF ~validate_time(time)
    THEN [d EXCEPT !.val = MCP7940_Error_Fail]
    ELSE LET w == mcp7940_setdata(d, MCP7940_RTCHOUR, time[1],
                                     MCP7940_RTCMIN,  time[2],
                                     MCP7940_RTCSEC,  time[3])
             o == mcp7940_oscillator(w, MCP7940_Mode_Enable, c)
         IN  [o EXCEPT !.val = MCP7940_Error_None]

\* faulty variant: the date is written before it is validated
mcp7940_setdate_late_check(d, date) ==
    LET w == mcp7940_setdata(d, MCP7940_RTCDATE, date[1],
                                MCP7940_RTCMTH,  date[2],
                                MCP7940_RTCYEAR, date[3])
    IN  IF ~validate_date(date)
        THEN [w EXCEPT !.val = MCP7940_Error_Fail]
        ELSE [w EXCEPT !.val = MCP7940_Error_None]

\* faulty variant: the month is merged into RTCMTH, keeping the LPYR bit
mcp7940_setdate_keeps_lpyr(d, date) ==
    IF ~validate_date(date)
    THEN [d EXCEPT !.val = MCP7940_Error_Fail]
    ELSE LET w1 == mcp7940_write(d, MCP7940_RTCDATE, mcp7940_tobcd(date[1]))
             r  == mcp7940_read(w1, MCP7940_RTCMTH)
             w2 == mcp7940_write(r, MCP7940_RTCMTH,
                                 BitOr(BitAnd(MCP7940_LPYR_bm, r.val),
                                       mcp7940_tobcd(date[2])))
             w3 == mcp7940_write(w2, MCP7940_RTCYEAR, mcp7940_tobcd(date[3]))
         IN  [w3 EXCEPT !.val = MCP7940_Error_None]

mcp7940_setdate(d, date) ==
    IF ~validate_date(date)
    THEN [d EXCEPT !.val = MCP7940_Error_Fail]
    ELSE LET w == mcp7940_setdata(d, MCP7940_RTCDATE, date[1],
                                     MCP7940_RTCMTH,  date[2],
                                     MCP7940_RTCYEAR, date[3])
         IN  [w EXCEPT !.val = MCP7940_Error_None]

\* faulty variant: only the result of mcp7940_setdate is returned
mcp7940_setdatetime_date_result(d, time, date, c) ==
    LET t == mcp7940_settime(d, time, c)
        a == mcp7940_setdate(t, date)
    IN  [a EXCEPT !.val = BitOr(MCP7940_Error_None, a.val)]

\* faulty variant: the date is not set once the time was rejected
mcp7940_setdatetime_stops_early(d, time, date, c) ==
    LET t == mcp7940_settime(d, time, c)
        a == mcp7940_setdate(t, date)
    IN  IF t.val # MCP7940_Error_None
        THEN t
        ELSE [a EXCEPT !.val = BitOr(BitOr(MCP7940_Error_None, t.val), a.val)]

mcp7940_setdatetime(d, time, date, c) ==
    LET t == mcp7940_settime(d, time, c)
        a == mcp7940_setdate(t, date)
    IN  [a EXCEPT !.val = BitOr(BitOr(MCP7940_Error_None, t.val), a.val)]


(***************************************************************************)
(* The state machine.                                                      *)
(*   regs   the device's registers                                         *)
(*   cfg    the build configuration, fixed for a run                       *)
(*   lossy  whether the bus may fail to deliver the writes of a call       *)
(*   n      the number of driver calls the run may still make              *)
(* and, describing the last driver call,                                   *)
(*   op, arg   the function called and its arguments                       *)
(*   pre       the registers when it was called                            *)
(*   bus       the bus transactions it issued, in order                    *)
(*   wire      the calls to the bus layer and the timer it made, in order  *)
(*   ret       the value it returned (0 for a void function)               *)
(*   time, date, label   the structure or string it produced               *)
(* and prev, the << op, arg, ret >> of the call before it.                 *)
(* Of the calls further back the state keeps                               *)
(*   inited    whether mcp7940_init has completed in the run               *)
(*   enabled   whether mcp7940_init or mcp7940_oscillator(Enable) has      *)
(*             completed with no mcp7940_oscillator(Disable) after it      *)
(* For a call that is executed one transaction at a time, with the device  *)
(* clock running in between,                                               *)
(*   pc     the number of the transaction the call issues next, 0 when no  *)
(*          such call is in progress                                       *)
(*   held   the << time, date >> pairs the device has held since the call  *)
(*          began                                                          *)
(*   ticks  the number of seconds the device clock has advanced in the run *)
(***************************************************************************)
VARIABLES regs, cfg, lossy, n, op, arg, pre, bus, wire, ret, time, date, label,
          prev, inited, enabled, pc, held, ticks

vars == << regs, cfg, lossy, n, op, arg, pre, bus, wire, ret, time, date, label,
           prev, inited, enabled, pc, held, ticks >>

\* the longest sequence of driver calls explored
MaxOps == 2

NoTime == << 0, 0, 0 >>
NoDate == << 0, 0, 0 >>

Regs(f) == [a \in Addr |-> f[a]]

\* device contents the runs start from: a device fresh from power-on, a
\* device that has been keeping time across a power failure, and a device
\* whose registers are all ones
PowerOnImage ==
    [a \in Addr |-> IF a \in { MCP7940_RTCWKDAY, MCP7940_RTCDATE, MCP7940_RTCMTH }
                    THEN 1
                    ELSE IF a = MCP7940_CONTROL THEN MCP7940_OUT_bm ELSE 0]

RunningImage ==
    (MCP7940_RTCSEC    :> 216) @@   \* ST, 58 s
    (MCP7940_RTCMIN    :> 89)  @@   \* 59 min
    (MCP7940_RTCHOUR   :> 35)  @@   \* 23 h
    (MCP7940_RTCWKDAY  :> 59)  @@   \* OSCRUN, PWRFAIL, VBATEN, weekday 3
    (MCP7940_RTCDATE   :> 49)  @@   \* day 31
    (MCP7940_RTCMTH    :> 50)  @@   \* LPYR, month 12
    (MCP7940_RTCYEAR   :> 153) @@   \* year 99
    (MCP7940_CONTROL   :> 203) @@   \* OUT, SQWEN, EXTOSC, SQWFS
    (MCP7940_OSCTRIM   :> 133) @@
    (MCP7940_PWRDNMIN  :> 52)  @@   \* 34 min
    (MCP7940_PWRDNHOUR :> 18)  @@   \* 12 h
    (MCP7940_PWRDNDATE :> 40)  @@   \* day 28
    (MCP7940_PWRDNMTH  :> 226) @@   \* weekday 7, month 2
    (MCP7940_PWRUPMIN  :> 7)   @@   \* 07 min
    (MCP7940_PWRUPHOUR :> 9)   @@   \* 09 h
    (MCP7940_PWRUPDATE :> 1)   @@   \* day 1
    (MCP7940_PWRUPMTH  :> 35)  @@   \* weekday 1, month 3
    (32 :> 165)

OnesImage == [a \in Addr |-> 255]

Images == { PowerOnImage, Regs(RunningImage), OnesImage }

\* an image with one register replaced by an arbitrary byte
OneOff(img, addrs) == { [img EXCEPT ![a] = b] : a \in addrs, b \in Byte }

Prescalers == { 0, MCP7940_SQWFS0_bm, MCP7940_SQWFS1_bm,
                BitOr(MCP7940_SQWFS1_bm, MCP7940_SQWFS0_bm) }

AlarmModes == { MCP7940_ALM0EN_bm, MCP7940_ALM1EN_bm,
                BitOr(MCP7940_ALM1EN_bm, MCP7940_ALM0EN_bm) }

\* the default build of mcp7940.h
DefaultBuild == [extosc |-> FALSE, battery |-> FALSE,
                 mfp |-> MCP7940_MFP_MODE_OUTPUT, crstrim |-> FALSE,
                 prescaler |-> 0,
                 alarm |-> BitOr(MCP7940_ALM1EN_bm, MCP7940_ALM0EN_bm)]

Builds ==
    { [DefaultBuild EXCEPT !.extosc = x, !.battery = b, !.mfp = m, !.crstrim = t] :
        x \in BOOLEAN, b \in BOOLEAN,
        m \in { MCP7940_MFP_MODE_OUTPUT, MCP7940_MFP_MODE_SQUARE_WAVE,
                MCP7940_MFP_MODE_ALARM },
        t \in BOOLEAN }

RegisterSets == { MCP7940_Register_Current_Time,
                  MCP7940_Register_Power_Down_Time,
                  MCP7940_Register_Power_Up_Time }

Modes == { MCP7940_Mode_Disable, MCP7940_Mode_Enable }

TrimModes == { MCP7940_Trim_Substract, MCP7940_Trim_Add }

\* whether the writes of a call reach the device
Acks == IF lossy THEN BOOLEAN ELSE { TRUE }

Start(images, builds, faults, calls) ==
    /\ regs \in images
    /\ cfg \in builds
    /\ lossy = faults
    /\ n = calls
    /\ op = "none"
    /\ arg = << >>
    /\ pre = regs
    /\ bus = << >>
    /\ wire = << >>
    /\ ret = 0
    /\ time = NoTime
    /\ date = NoDate
    /\ label = ""
    /\ prev = << "none", << >>, 0 >>
    /\ inited = FALSE
    /\ enabled = FALSE
    /\ pc = 0
    /\ held = { }
    /\ ticks = 0

\* the effect of a completed call on the state; every action is enabled
\* only while the run has calls left
Commit(o, a, d, r, t, dt, l) ==
    /\ n > 0
    /\ pc = 0
    /\ n' = n - 1
    /\ op' = o
    /\ arg' = a
    /\ pre' = regs
    /\ regs' = d.regs
    /\ bus' = d.bus
    /\ wire' = d.wire
    /\ ret' = r
    /\ time' = t
    /\ date' = dt
    /\ label' = l
    /\ prev' = << op, arg, ret >>
    /\ inited' = (inited \/ o = "init")
    /\ enabled' = IF o = "init" THEN TRUE
                  ELSE IF o = "oscillator" THEN a = << MCP7940_Mode_Enable >>
                  ELSE enabled
    /\ UNCHANGED << cfg, lossy, pc, held, ticks >>

Call_init ==
    /\ n > 0
    /\ \E ok \in Acks :
           LET d == mcp7940_init(Dev(regs, ok), cfg)
           IN  Commit("init", << >>, d, 0, NoTime, NoDate, "")

Call_trimming(values) ==
    /\ n > 0
    /\ \E ok \in Acks, mode \in TrimModes, value \in values :
           LET d == mcp7940_trimming(Dev(regs, ok), mode, value)
           IN  Commit("trimming", << mode, value >>, d, d.val, NoTime, NoDate, "")

Call_oscillator ==
    /\ n > 0
    /\ \E ok \in Acks, mode \in Modes :
           LET d == mcp7940_oscillator(Dev(regs, ok), mode, cfg)
           IN  Commit("oscillator", << mode >>, d, 0, NoTime, NoDate, "")

Call_status ==
    /\ n > 0
    /\ \E ok \in Acks :
           LET d == mcp7940_status(Dev(regs, ok))
           IN  Commit("status", << >>, d, d.val, NoTime, NoDate, "")

\* mcp7940_mfp_output exists only in a build with the MFP pin as an output
Call_mfp_output ==
    /\ n > 0
    /\ cfg.mfp = MCP7940_MFP_MODE_OUTPUT
    /\ \E ok \in Acks, output \in Modes :
        LET d == mcp7940_mfp_output(Dev(regs, ok), output)
        IN  Commit("mfp_output", << output >>, d, 0, NoTime, NoDate, "")

Call_weekday ==
    /\ n > 0
    /\ \E ok \in Acks, reg \in RegisterSets :
           LET d == mcp7940_weekday(Dev(regs, ok), reg)
           IN  Commit("weekday", << reg >>, d, d.val, NoTime, NoDate, "")

Call_weekday_string(days) ==
    /\ n > 0
    /\ \E day \in days :
           LET l == mcp7940_weekday_string(day)
           IN  Commit("weekday_string", << day >>, Dev(regs, TRUE), 0, NoTime, NoDate, l)

Call_time ==
    /\ n > 0
    /\ \E ok \in Acks, reg \in RegisterSets :
           LET r == mcp7940_time(Dev(regs, ok), reg)
           IN  Commit("time", << reg >>, r.d, 0, r.time, NoDate, "")

Call_date ==
    /\ n > 0
    /\ \E ok \in Acks, reg \in RegisterSets :
           LET r == mcp7940_date(Dev(regs, ok), reg)
           IN  Commit("date", << reg >>, r.d, 0, NoTime, r.date, "")

Call_datetime ==
    /\ n > 0
    /\ \E ok \in Acks, reg \in RegisterSets :
           LET r == mcp7940_datetime(Dev(regs, ok), reg)
           IN  Commit("datetime", << reg >>, r.d, 0, r.time, r.date, "")

Call_leapyear ==
    /\ n > 0
    /\ \E ok \in Acks :
           LET d == mcp7940_leapyear(Dev(regs, ok))
           IN  Commit("leapyear", << >>, d, d.val, NoTime, NoDate, "")

Call_setweekday(weekdays) ==
    /\ n > 0
    /\ \E ok \in Acks, weekday \in weekdays :
           LET d == mcp7940_setweekday(Dev(regs, ok), weekday)
           IN  Commit("setweekday", << weekday >>, d, d.val, NoTime, NoDate, "")

Call_settime(times) ==
    /\ n > 0
    /\ \E ok \in Acks, t \in times :
           LET d == mcp7940_settime(Dev(regs, ok), t, cfg)
           IN  Commit("settime", t, d, d.val, NoTime, NoDate, "")

Call_setdate(dates) ==
    /\ n > 0
    /\ \E ok \in Acks, dt \in dates :
           LET d == mcp7940_setdate(Dev(regs, ok), dt)
           IN  Commit("setdate", dt, d, d.val, NoTime, NoDate, "")

Call_setdatetime(times, dates) ==
    /\ n > 0
    /\ \E ok \in Acks, t \in times, dt \in dates :
           LET d == mcp7940_setdatetime(Dev(regs, ok), t, dt, cfg)
           IN  Commit("setdatetime", t \o dt, d, d.val, NoTime, NoDate, "")


(***************************************************************************)
(* Specification of the whole driver: every public function, called on     *)
(* sample arguments, in sequences of at most MaxOps calls.                 *)
(***************************************************************************)
TimeSamples == { << 23, 59, 58 >>, << 0, 0, 0 >>, << 9, 10, 19 >>,
                 << 24, 0, 0 >>, << 0, 60, 0 >>, << 0, 0, 255 >> }

DateSamples == { << 31, 12, 99 >>, << 1, 1, 0 >>, << 29, 2, 24 >>,
                 << 0, 1, 0 >>, << 1, 13, 0 >>, << 1, 1, 100 >> }

\* the builds of the sample runs: both clock sources, with and without
\* battery backup, the MFP pin an output
SampleBuilds ==
    { [DefaultBuild EXCEPT !.extosc = x, !.battery = b] :
        x \in BOOLEAN, b \in BOOLEAN }

Init == Start(Images, SampleBuilds, FALSE, MaxOps)

Next ==
    \/ Call_init
    \/ Call_trimming({ 0, 5, 127, 128, 255 })
    \/ Call_oscillator
    \/ Call_status
    \/ Call_mfp_output
    \/ Call_weekday
    \/ Call_weekday_string(0 .. 8)
    \/ Call_time
    \/ Call_date
    \/ Call_datetime
    \/ Call_leapyear
    \/ Call_setweekday({ 0, 3, 6, 7, 255 })
    \/ Call_settime(TimeSamples)
    \/ Call_setdate(DateSamples)
    \/ Call_setdatetime({ << 23, 59, 58 >>, << 24, 0, 0 >> },
                        { << 31, 12, 99 >>, << 1, 13, 0 >> })

Spec == Init /\ [][Next]_vars


(***************************************************************************)
(* Specification of the register codec: a magnitude and a BCD field are    *)
(* drawn, the magnitude is encoded, and the byte is decoded with the       *)
(* field's tens mask.  arg is << magnitude, field >>, then                 *)
(* << magnitude, field, encoded byte >>; ret is the last result.           *)
(***************************************************************************)
Fields ==
    << [name |-> "hour",   lo |-> 0, hi |-> 23, mask |-> MCP7940_HRTEN_bm],
       [name |-> "minute", lo |-> 0, hi |-> 59, mask |-> MCP7940_MINTEN_bm],
       [name |-> "second", lo |-> 0, hi |-> 59, mask |-> MCP7940_SECTEN_bm],
       [name |-> "day",    lo |-> 1, hi |-> 31, mask |-> MCP7940_DATETEN_bm],
       [name |-> "month",  lo |-> 1, hi |-> 12, mask |-> MCP7940_MTHTEN_bm],
       [name |-> "year",   lo |-> 0, hi |-> 99, mask |-> MCP7940_YRTEN_bm] >>

\* the codec touches neither the device nor the call budget
InitCodec == Start({ PowerOnImage }, { DefaultBuild }, FALSE, 0)

Draw_value ==
    /\ op = "none"
    /\ \E m \in Byte, f \in DOMAIN Fields :
        /\ op' = "value"
        /\ arg' = << m, f >>
    /\ UNCHANGED << regs, cfg, lossy, n, pre, bus, wire, ret, time, date, label,
                    prev, inited, enabled, pc, held, ticks >>

Apply_tobcd ==
    /\ op = "value"
    /\ op' = "tobcd"
    /\ ret' = mcp7940_tobcd(arg[1])
    /\ arg' = << arg[1], arg[2], mcp7940_tobcd(arg[1]) >>
    /\ UNCHANGED << regs, cfg, lossy, n, pre, bus, wire, time, date, label, prev,
                    inited, enabled, pc, held, ticks >>

Apply_tobinary ==
    /\ op = "tobcd"
    /\ op' = "tobinary"
    /\ ret' = mcp7940_tobinary(arg[3], Fields[arg[2]].mask)
    /\ UNCHANGED << regs, cfg, lossy, n, arg, pre, bus, wire, time, date, label,
                    prev, inited, enabled, pc, held, ticks >>

NextCodec == Draw_value \/ Apply_tobcd \/ Apply_tobinary

SpecCodec == InitCodec /\ [][NextCodec]_vars

(***************************************************************************)
(* Specification of the clock writers and readers: mcp7940_settime and     *)
(* mcp7940_setdate on every value of each field (the other two fields      *)
(* fixed), out-of-range values included, each followed by at most one more *)
(* call, in both clock-source builds.                                      *)
(***************************************************************************)
TimeInputs ==
    { << h, 59, 58 >> : h \in 0 .. 24 } \cup
    { << 23, m, 58 >> : m \in 0 .. 60 } \cup
    { << 23, 59, s >> : s \in 0 .. 60 } \cup
    { << 0, 0, 0 >>, << 255, 0, 0 >>, << 0, 255, 0 >>, << 0, 0, 255 >>,
      << 100, 0, 0 >>, << 0, 100, 0 >>, << 0, 0, 100 >> }

DateInputs ==
    { << d, 12, 99 >> : d \in 0 .. 32 } \cup
    { << 31, m, 99 >> : m \in 0 .. 13 } \cup
    { << 31, 12, y >> : y \in 0 .. 100 } \cup
    { << 1, 1, 0 >>, << 255, 1, 0 >>, << 1, 255, 0 >>, << 1, 1, 255 >> }

ClockBuilds == { [DefaultBuild EXCEPT !.extosc = x] : x \in BOOLEAN }

InitClock == Start({ Regs(RunningImage) }, ClockBuilds, FALSE, 2)

NextClock ==
    \/ Call_settime(TimeInputs)
    \/ Call_setdate(DateInputs)
    \/ Call_time
    \/ Call_date

SpecClock == InitClock /\ [][NextClock]_vars

(***************************************************************************)
(* Specification of the weekday functions on every content of RTCWKDAY.    *)
(***************************************************************************)
InitWeekday ==
    Start(OneOff(Regs(RunningImage), { MCP7940_RTCWKDAY }), { DefaultBuild },
          FALSE, MaxOps)

NextWeekday ==
    \/ Call_setweekday((0 .. 8) \cup { 255 })
    \/ Call_weekday
    \/ Call_status

SpecWeekday == InitWeekday /\ [][NextWeekday]_vars

(***************************************************************************)
(* Specification of a single call of a weekday function on every argument  *)
(* byte and every content of RTCWKDAY.                                     *)
(***************************************************************************)
InitWeekdayArgs ==
    Start(OneOff(Regs(RunningImage), { MCP7940_RTCWKDAY }), { DefaultBuild },
          FALSE, 1)

NextWeekdayArgs ==
    \/ Call_setweekday(Byte)
    \/ Call_weekday_string(Byte)
    \/ Call_weekday

SpecWeekdayArgs == InitWeekdayArgs /\ [][NextWeekdayArgs]_vars

(***************************************************************************)
(* Specification of a single call of a reading function on device contents *)
(* that differ from the sample images in one arbitrary register.           *)
(***************************************************************************)
InitRead ==
    Start(UNION { OneOff(img, Addr) : img \in Images }, { DefaultBuild },
          FALSE, 1)

NextRead ==
    \/ Call_status
    \/ Call_weekday
    \/ Call_time
    \/ Call_date
    \/ Call_datetime
    \/ Call_leapyear

SpecRead == InitRead /\ [][NextRead]_vars

(***************************************************************************)
(* Specification of a single call of mcp7940_trimming on every value and   *)
(* both directions, over sample prior contents of OSCTRIM, on a bus that   *)
(* may lose the write.                                                     *)
(***************************************************************************)
OldTrims == (0 .. 3) \cup (126 .. 129) \cup (252 .. 255) \cup { 5, 64, 133, 192 }

InitTrim ==
    Start({ [Regs(RunningImage) EXCEPT ![MCP7940_OSCTRIM] = b] : b \in OldTrims },
          { DefaultBuild }, TRUE, 1)

NextTrim == Call_trimming(Byte)

SpecTrim == InitTrim /\ [][NextTrim]_vars

(***************************************************************************)
(* Specification of a single call of mcp7940_setdatetime on the time and   *)
(* date inputs of SpecClock, in both clock-source builds.                  *)
(***************************************************************************)
InitDateTime == Start({ Regs(RunningImage) }, ClockBuilds, FALSE, 1)

NextDateTime == Call_setdatetime(TimeInputs, DateInputs)

SpecDateTime == InitDateTime /\ [][NextDateTime]_vars


(***************************************************************************)
(* Specification of a single call of a configuration function in every     *)
(* build, on device contents that differ from the power-on and the         *)
(* time-keeping image in one arbitrary byte of RTCSEC, RTCWKDAY or CONTROL. *)
(***************************************************************************)
ConfigImages ==
    OneOff(PowerOnImage, { MCP7940_RTCSEC, MCP7940_RTCWKDAY, MCP7940_CONTROL })
        \cup OneOff(Regs(RunningImage),
                    { MCP7940_RTCSEC, MCP7940_RTCWKDAY, MCP7940_CONTROL })

InitConfig == Start(ConfigImages, Builds, FALSE, 1)

NextConfig ==
    \/ Call_init
    \/ Call_oscillator
    \/ Call_mfp_output

SpecConfig == InitConfig /\ [][NextConfig]_vars


(***************************************************************************)
(* Specification of a single call of mcp7940_init in every build, every    *)
(* prescaler and every alarm routing included, on every content of         *)
(* CONTROL.                                                                *)
(***************************************************************************)
InitBuilds ==
    { [b EXCEPT !.prescaler = p, !.alarm = a] :
        b \in Builds, p \in Prescalers, a \in AlarmModes }

InitInit ==
    Start(OneOff(PowerOnImage, { MCP7940_CONTROL })
              \cup OneOff(Regs(RunningImage), { MCP7940_CONTROL }),
          InitBuilds, FALSE, 1)

NextInit == Call_init

SpecInit == InitInit /\ [][NextInit]_vars


(***************************************************************************)
(* A current-time read executed one bus transaction at a time, with the    *)
(* device clock running in between.  The device counts seconds while its   *)
(* oscillator is started; a tick carries into minutes, hours, weekday,     *)
(* date, month and year and leaves the flag bits of the registers alone.   *)
(***************************************************************************)
MaxTicks == 2

\* the decimal value the clock holds in a register whose tens digit has k
\* bits, and the packed BCD byte of a decimal value
ClockValue(b, k) == ((b \div 16) % (2 ^ k)) * 10 + (b % 16)

ClockByte(v) == (v \div 10) * 16 + (v % 10)

DaysInMonth(m, y) ==
    IF m = 2
    THEN IF y % 4 = 0 THEN 29 ELSE 28
    ELSE IF m \in { 4, 6, 9, 11 } THEN 30 ELSE 31

\* the registers one second later
Ticked(r) ==
    LET s   == ClockValue(r[MCP7940_RTCSEC], 3)
        mi  == ClockValue(r[MCP7940_RTCMIN], 3)
        h   == ClockValue(r[MCP7940_RTCHOUR], 2)
        w   == r[MCP7940_RTCWKDAY] % 8
        da  == ClockValue(r[MCP7940_RTCDATE], 2)
        mo  == ClockValue(r[MCP7940_RTCMTH], 1)
        y   == ClockValue(r[MCP7940_RTCYEAR], 4)
        s1  == (s + 1) % 60
        cm  == s1 = 0
        mi1 == IF cm THEN (mi + 1) % 60 ELSE mi
        ch  == cm /\ mi1 = 0
        h1  == IF ch THEN (h + 1) % 24 ELSE h
        cd  == ch /\ h1 = 0
        w1  == IF cd THEN (w % 7) + 1 ELSE w
        da1 == IF cd THEN (IF da >= DaysInMonth(mo, y) THEN 1 ELSE da + 1) ELSE da
        cmo == cd /\ da1 = 1
        mo1 == IF cmo THEN (mo % 12) + 1 ELSE mo
        cy  == cmo /\ mo1 = 1
        y1  == IF cy THEN (y + 1) % 100 ELSE y
    IN  [r EXCEPT ![MCP7940_RTCSEC]   = (@ \div 128) * 128 + ClockByte(s1),
                  ![MCP7940_RTCMIN]   = ClockByte(mi1),
                  ![MCP7940_RTCHOUR]  = (@ \div 64) * 64 + ClockByte(h1),
                  ![MCP7940_RTCWKDAY] = (@ \div 8) * 8 + w1,
                  ![MCP7940_RTCDATE]  = ClockByte(da1),
                  ![MCP7940_RTCMTH]   = IF cmo
                                        THEN (IF y1 % 4 = 0 THEN MCP7940_LPYR_bm ELSE 0)
                                             + ClockByte(mo1)
                                        ELSE @,
                  ![MCP7940_RTCYEAR]  = ClockByte(y1)]

\* the << time, date >> pair a device with registers r holds: what
\* mcp7940_datetime returns when nothing happens during the call
Snapshot(r) ==
    LET a == mcp7940_datetime(Dev(r, TRUE), MCP7940_Register_Current_Time)
    IN  << a.time, a.date >>

\* faulty variant: the date registers are read before the time registers
DatetimeStep_date_first(k, d) ==
    CASE k = 1 -> mcp7940_day(d, MCP7940_Register_Current_Time)
      [] k = 2 -> mcp7940_month(d, MCP7940_Register_Current_Time)
      [] k = 3 -> mcp7940_year(d)
      [] k = 4 -> mcp7940_hour(d, MCP7940_Register_Current_Time)
      [] k = 5 -> mcp7940_minute(d, MCP7940_Register_Current_Time)
      [] OTHER -> mcp7940_second(d)

\* the k-th bus transaction of mcp7940_datetime for the current time:
\* mcp7940_time reads hour, minute, second, then mcp7940_date reads day,
\* month, year
DatetimeStep(k, d) ==
    CASE k = 1 -> mcp7940_hour(d, MCP7940_Register_Current_Time)
      [] k = 2 -> mcp7940_minute(d, MCP7940_Register_Current_Time)
      [] k = 3 -> mcp7940_second(d)
      [] k = 4 -> mcp7940_day(d, MCP7940_Register_Current_Time)
      [] k = 5 -> mcp7940_month(d, MCP7940_Register_Current_Time)
      [] OTHER -> mcp7940_year(d)

Begin_datetime ==
    /\ n > 0
    /\ pc = 0
    /\ n' = n - 1
    /\ op' = "datetime"
    /\ arg' = << MCP7940_Register_Current_Time >>
    /\ pre' = regs
    /\ bus' = << >>
    /\ wire' = << >>
    /\ ret' = 0
    /\ time' = NoTime
    /\ date' = NoDate
    /\ label' = ""
    /\ prev' = << op, arg, ret >>
    /\ pc' = 1
    /\ held' = { Snapshot(regs) }
    /\ UNCHANGED << regs, cfg, lossy, inited, enabled, ticks >>

Step_datetime ==
    /\ pc \in 1 .. 6
    /\ LET d == DatetimeStep(pc, [Dev(regs, TRUE) EXCEPT !.bus = bus, !.wire = wire])
       IN  /\ bus' = d.bus
           /\ wire' = d.wire
           /\ time' = IF pc <= 3 THEN [time EXCEPT ![pc] = d.val] ELSE time
           /\ date' = IF pc > 3 THEN [date EXCEPT ![pc - 3] = d.val] ELSE date
    /\ pc' = IF pc = 6 THEN 0 ELSE pc + 1
    /\ UNCHANGED << regs, cfg, lossy, n, op, arg, pre, ret, label, prev, inited,
                    enabled, held, ticks >>

Tick ==
    /\ ticks < MaxTicks
    /\ IF cfg.extosc
       THEN BitAnd(regs[MCP7940_CONTROL], MCP7940_EXTOSC_bm) # 0
       ELSE BitAnd(regs[MCP7940_RTCSEC], MCP7940_ST_bm) # 0
    /\ regs' = Ticked(regs)
    /\ ticks' = ticks + 1
    /\ held' = IF pc > 0 THEN held \cup { Snapshot(regs') } ELSE held
    /\ UNCHANGED << cfg, lossy, n, op, arg, pre, bus, wire, ret, time, date, label,
                    prev, inited, enabled, pc >>

\* devices about to carry: into the next year, the next month (leap and
\* common February, a 30-day month), the next hour and the next minute, and
\* a device whose oscillator is stopped
TickStarts ==
    { << 23, 59, 58, 31, 12, 99 >>, << 23, 59, 59, 28, 2, 24 >>,
      << 23, 59, 58, 28, 2, 23 >>,  << 23, 59, 58, 30, 9, 26 >>,
      << 9, 59, 59, 15, 6, 26 >>,   << 12, 34, 58, 1, 1, 0 >> }

TickImage(t) ==
    [Regs(RunningImage) EXCEPT ![MCP7940_RTCHOUR] = ClockByte(t[1]),
                               ![MCP7940_RTCMIN]  = ClockByte(t[2]),
                               ![MCP7940_RTCSEC]  = MCP7940_ST_bm + ClockByte(t[3]),
                               ![MCP7940_RTCDATE] = ClockByte(t[4]),
                               ![MCP7940_RTCMTH]  = ClockByte(t[5]),
                               ![MCP7940_RTCYEAR] = ClockByte(t[6])]

InitTick ==
    Start({ TickImage(t) : t \in TickStarts } \cup { PowerOnImage },
          { DefaultBuild }, FALSE, 1)

NextTick ==
    \/ Begin_datetime
    \/ Step_datetime
    \/ Tick

SpecTick == InitTick /\ [][NextTick]_vars

(***************************************************************************)
(* Specification of the life of a configured device: a first call that is  *)
(* mcp7940_init or mcp7940_oscillator, followed by two calls of any public *)
(* function on sample arguments.                                           *)
(***************************************************************************)
InitLife == Start(Images, SampleBuilds, FALSE, 3)

NextLife ==
    \/ op = "none" /\ Call_init
    \/ op = "none" /\ Call_oscillator
    \/ op # "none" /\ Next

SpecLife == InitLife /\ [][NextLife]_vars

(***************************************************************************)
(* Properties.                                                             *)
(***************************************************************************)

\* C1 (SpecCodec): BCD round trip.  For every field and every magnitude in
\* the field's legal range, decoding the encoded magnitude with the field's
\* tens mask gives the magnitude back.
C1_RoundTrip ==
    (op = "tobinary" /\ arg[1] \in Fields[arg[2]].lo .. Fields[arg[2]].hi)
        => ret = arg[1]

\* year 99 is encoded as 0x99 and decoded as 99
C1_Witness ==
    /\ op = "tobinary"
    /\ Fields[arg[2]].name = "year"
    /\ arg[1] = 99
    /\ arg[3] = 153
    /\ ret = 99

\* C2 (SpecClock): write-then-read of the time.  When mcp7940_settime has
\* accepted a time and the next call is mcp7940_time on the current-time
\* registers, the structure read equals the structure written, in both
\* clock-source builds.
C2_SetTimeThenTime ==
    ( /\ op = "time"
      /\ arg = << MCP7940_Register_Current_Time >>
      /\ prev[1] = "settime"
      /\ prev[3] = MCP7940_Error_None )
        => time = prev[2]

\* crystal build: 23:59:58 is read back although RTCSEC holds ST | 0x58
C2_Witness ==
    /\ op = "time"
    /\ arg = << MCP7940_Register_Current_Time >>
    /\ prev = << "settime", << 23, 59, 58 >>, MCP7940_Error_None >>
    /\ ~cfg.extosc
    /\ regs[MCP7940_RTCSEC] = 216
    /\ time = << 23, 59, 58 >>

\* C3 (SpecClock): no partial write on rejected input.  A call of
\* mcp7940_settime (mcp7940_setdate) whose argument the validator rejects
\* returns MCP7940_Error_Fail, issues no bus transaction and leaves every
\* register as it was.
C3_RejectedNoWrite ==
    /\ (op = "settime" /\ ~validate_time(arg))
          => (ret = MCP7940_Error_Fail /\ bus = << >> /\ regs = pre)
    /\ (op = "setdate" /\ ~validate_date(arg))
          => (ret = MCP7940_Error_Fail /\ bus = << >> /\ regs = pre)

\* a rejected date after a rejected time: the device still holds its image
C3_Witness ==
    /\ op = "setdate"
    /\ arg = << 31, 13, 99 >>
    /\ prev = << "settime", << 24, 59, 58 >>, MCP7940_Error_Fail >>
    /\ ret = MCP7940_Error_Fail
    /\ bus = << >>
    /\ regs = Regs(RunningImage)

\* C4 (SpecWeekday): for every weekday index w in 0..6 and every prior
\* content old of RTCWKDAY, mcp7940_setweekday(w) returns MCP7940_Error_None
\* and leaves RTCWKDAY with the upper five bits of old and the value w + 1 in
\* the lower three, every other register unchanged; a following
\* mcp7940_weekday on the current-time registers returns w + 1.
C4_SetWeekday ==
    /\ (op = "setweekday" /\ arg[1] \in 0 .. 6)
          => /\ ret = MCP7940_Error_None
             /\ regs[MCP7940_RTCWKDAY]
                   = (pre[MCP7940_RTCWKDAY] \div 8) * 8 + (arg[1] + 1)
             /\ \A a \in Addr \ { MCP7940_RTCWKDAY } : regs[a] = pre[a]
    /\ ( /\ op = "weekday"
         /\ arg = << MCP7940_Register_Current_Time >>
         /\ prev[1] = "setweekday"
         /\ prev[3] = MCP7940_Error_None )
          => ret = prev[2][1] + 1

\* index 6 on a register whose flag bits are all set: device value 7 is read
\* back and the flag bits are still set
C4_Witness ==
    /\ op = "weekday"
    /\ arg = << MCP7940_Register_Current_Time >>
    /\ prev = << "setweekday", << 6 >>, MCP7940_Error_None >>
    /\ ret = 7
    /\ regs[MCP7940_RTCWKDAY] = 255

\* C5 (SpecWeekdayArgs): for every weekday argument w in 7..255,
\* mcp7940_setweekday(w) returns MCP7940_Error_Fail and issues no bus
\* transaction; every register is unchanged.
C5_SetWeekdayRejected ==
    (op = "setweekday" /\ arg[1] >= 7)
        => (ret = MCP7940_Error_Fail /\ bus = << >> /\ regs = pre)

C5_Witness ==
    /\ op = "setweekday"
    /\ arg = << 7 >>
    /\ ret = MCP7940_Error_Fail
    /\ bus = << >>
    /\ regs[MCP7940_RTCWKDAY] = 59

\* the addresses of the transactions of the last call
BusAddresses == { bus[i][2] : i \in DOMAIN bus }

\* the decimal value of a packed BCD byte whose tens digit has k bits
Bcd(b, k) == ((b \div 16) % (2 ^ k)) * 10 + (b % 16)

\* C6 (SpecRead): absent fields.  For the power-down and power-up register
\* sets mcp7940_time sets second to 0 without addressing RTCSEC and
\* mcp7940_date sets year to 0 without addressing RTCYEAR, whatever the
\* device holds; for the current-time set second and year are decoded from
\* RTCSEC and RTCYEAR.
C6_AbsentFields ==
    /\ (op = "time" /\ arg[1] # MCP7940_Register_Current_Time)
          => (time[3] = 0 /\ MCP7940_RTCSEC \notin BusAddresses)
    /\ (op = "date" /\ arg[1] # MCP7940_Register_Current_Time)
          => (date[3] = 0 /\ MCP7940_RTCYEAR \notin BusAddresses)
    /\ (op = "time" /\ arg[1] = MCP7940_Register_Current_Time)
          => /\ time[3] = Bcd(regs[MCP7940_RTCSEC], 3)
             /\ << "R", MCP7940_RTCSEC, regs[MCP7940_RTCSEC] >> = bus[Len(bus)]
    /\ (op = "date" /\ arg[1] = MCP7940_Register_Current_Time)
          => /\ date[3] = Bcd(regs[MCP7940_RTCYEAR], 4)
             /\ << "R", MCP7940_RTCYEAR, regs[MCP7940_RTCYEAR] >> = bus[Len(bus)]

\* the power-down time stamp is read as 12:34:00 while RTCSEC holds 0xFF
C6_Witness ==
    /\ op = "time"
    /\ arg = << MCP7940_Register_Power_Down_Time >>
    /\ regs[MCP7940_RTCSEC] = 255
    /\ time = << 12, 34, 0 >>
    /\ Len(bus) = 2

\* the byte the last call of mcp7940_trimming wrote to OSCTRIM
TrimWritten == bus[1][3]

\* C7 (SpecTrim): trim byte.  For every value in 0..255 the byte
\* mcp7940_trimming writes to OSCTRIM is the low seven bits of the value,
\* with bit 7 set for MCP7940_Trim_Add and clear for MCP7940_Trim_Substract.
C7_TrimByte ==
    op = "trimming"
        => /\ bus[1][1] = "W"
           /\ bus[1][2] = MCP7940_OSCTRIM
           /\ TrimWritten = (arg[2] % 128)
                              + (IF arg[1] = MCP7940_Trim_Add THEN 128 ELSE 0)

\* value 0xFF, Add, on an acknowledging bus: OSCTRIM ends as 0xFF
C7_Witness ==
    /\ op = "trimming"
    /\ arg = << MCP7940_Trim_Add, 255 >>
    /\ TrimWritten = 255
    /\ pre[MCP7940_OSCTRIM] = 0
    /\ regs[MCP7940_OSCTRIM] = 255

\* C8 as stated (SpecTrim): whenever the seven-bit magnitude is 0 the byte
\* written has bit 7 clear, in both directions; bit 7 is set only for Add
\* with a non-zero magnitude.
C8_AsStated ==
    op = "trimming"
        => /\ (arg[2] % 128 = 0 => TrimWritten < 128)
           /\ (TrimWritten >= 128
                  => (arg[1] = MCP7940_Trim_Add /\ arg[2] % 128 # 0))

\* C8 amended (SpecTrim): bit 7 of the byte written is the direction alone:
\* set for Add and clear for Substract, whatever the magnitude.  With
\* magnitude 0 the low seven bits written are 0, and the byte is 0x80 for
\* Add and 0x00 for Substract.
C8_TrimDirection ==
    op = "trimming"
        => /\ (TrimWritten >= 128 <=> arg[1] = MCP7940_Trim_Add)
           /\ (arg[2] % 128 = 0
                  => TrimWritten = (IF arg[1] = MCP7940_Trim_Add THEN 128 ELSE 0))

\* Add with magnitude 0 writes 0x80
C8_Witness ==
    /\ op = "trimming"
    /\ arg = << MCP7940_Trim_Add, 0 >>
    /\ TrimWritten = 128
    /\ regs[MCP7940_OSCTRIM] = 128

\* C9 (SpecTrim): write-then-verify without retry.  Every call of
\* mcp7940_trimming issues exactly one write of OSCTRIM and then exactly one
\* read of OSCTRIM; it returns MCP7940_Error_None when the byte read equals
\* the byte written and MCP7940_Error_Fail otherwise.
C9_WriteThenVerify ==
    op = "trimming"
        => /\ Len(bus) = 2
           /\ bus[1][1] = "W" /\ bus[1][2] = MCP7940_OSCTRIM
           /\ bus[2][1] = "R" /\ bus[2][2] = MCP7940_OSCTRIM
           /\ bus[2][3] = regs[MCP7940_OSCTRIM]
           /\ (ret = MCP7940_Error_None <=> bus[2][3] = bus[1][3])
           /\ (ret = MCP7940_Error_Fail <=> bus[2][3] # bus[1][3])

\* a lost write: the read returns the old content, the call fails after two
\* transactions
C9_Witness ==
    /\ op = "trimming"
    /\ arg = << MCP7940_Trim_Substract, 5 >>
    /\ pre[MCP7940_OSCTRIM] = 133
    /\ bus = << << "W", MCP7940_OSCTRIM, 5 >>, << "R", MCP7940_OSCTRIM, 133 >> >>
    /\ ret = MCP7940_Error_Fail

\* C10 (SpecWeekdayArgs): weekday label lookup.  mcp7940_weekday_string maps
\* the device values 1..7 to "MON", "TUE", "WED", "THU", "FRI", "SAT", "SUN"
\* and the device value 0 to the fallback "???".
C10_WeekdayLabels ==
    op = "weekday_string"
        => /\ (arg[1] = 0 => label = "???")
           /\ (arg[1] = 1 => label = "MON")
           /\ (arg[1] = 2 => label = "TUE")
           /\ (arg[1] = 3 => label = "WED")
           /\ (arg[1] = 4 => label = "THU")
           /\ (arg[1] = 5 => label = "FRI")
           /\ (arg[1] = 6 => label = "SAT")
           /\ (arg[1] = 7 => label = "SUN")

C10_Witness ==
    /\ op = "weekday_string"
    /\ arg = << 7 >>
    /\ label = "SUN"
    /\ bus = << >>

\* C11 as stated (SpecWeekdayArgs): for every argument byte outside 1..7
\* mcp7940_weekday_string returns the fallback label "???".
C11_AsStated ==
    (op = "weekday_string" /\ arg[1] \notin 1 .. 7) => label = "???"

\* C11 amended (SpecWeekdayArgs): the lookup index is (day - 1) reduced to
\* three bits, so it is always inside the 8-entry table, and the label
\* depends on day modulo 8 only: the fallback "???" is returned exactly for
\* the multiples of 8 (0, 8, 16, ..., 248), and every other byte gets the
\* weekday label of its remainder, so 9 is "MON" and 255 is "SUN".
C11_LabelWraps ==
    op = "weekday_string"
        => /\ label = << "???", "MON", "TUE", "WED", "THU", "FRI", "SAT", "SUN" >>
                          [(arg[1] % 8) + 1]
           /\ (label = "???" <=> arg[1] % 8 = 0)
           /\ bus = << >>
           /\ regs = pre

\* the byte 9 lies outside 1..7 and is labelled "MON"
C11_Witness ==
    /\ op = "weekday_string"
    /\ arg = << 9 >>
    /\ label = "MON"

\* bit k of the byte b
Bit(b, k) == (b \div (2 ^ k)) % 2

\* C12 (SpecRead): status decoding.  mcp7940_status issues a single read of
\* RTCWKDAY and nothing else, and returns that byte with every bit other
\* than OSCRUN (5), PWRFAIL (4) and VBATEN (3) cleared: each flag is in the
\* result exactly when its bit is set in the register, the result is
\* MCP7940_Status_None exactly when none is set, and the weekday bits 0..2
\* and bits 6..7 are never in the result.
C12_Status ==
    op = "status"
        => /\ bus = << << "R", MCP7940_RTCWKDAY, pre[MCP7940_RTCWKDAY] >> >>
           /\ regs = pre
           /\ ret = MCP7940_Status_Oscillator_Running * Bit(pre[MCP7940_RTCWKDAY], 5)
                     + MCP7940_Status_Power_Fail * Bit(pre[MCP7940_RTCWKDAY], 4)
                     + MCP7940_Status_Battery_Enabled * Bit(pre[MCP7940_RTCWKDAY], 3)
           /\ ret % 8 = 0
           /\ ret < 64
           /\ (ret = MCP7940_Status_None
                  <=> (pre[MCP7940_RTCWKDAY] \div 8) % 8 = 0)

\* RTCWKDAY holds 0xD7: of the three flags only PWRFAIL is set, and the
\* weekday 7 and bits 6..7 are dropped
C12_Witness ==
    /\ op = "status"
    /\ pre[MCP7940_RTCWKDAY] = 215
    /\ ret = MCP7940_Status_Power_Fail
    /\ Len(bus) = 1

\* C13 as stated (SpecRead): leap-year indication.  mcp7940_leapyear returns
\* MCP7940_LeapYear_True if and only if bit 5 (LPYR) of the month register
\* RTCMTH is set, and MCP7940_LeapYear_False otherwise.
C13_AsStated ==
    op = "leapyear"
        => /\ ret \in { MCP7940_LeapYear_False, MCP7940_LeapYear_True }
           /\ (ret = MCP7940_LeapYear_True <=> Bit(pre[MCP7940_RTCMTH], 5) = 1)

\* the addresses of the transactions of the last call, in order
BusAddressSeq == [i \in DOMAIN bus |-> bus[i][2]]

\* the register mcp7940_oscillator works on in the build of the run
OscillatorRegister == IF cfg.extosc THEN MCP7940_CONTROL ELSE MCP7940_RTCSEC

\* C14 (SpecDateTime): mcp7940_setdatetime runs mcp7940_settime first and
\* mcp7940_setdate second: the transactions of the time part (three writes
\* and the oscillator enable, none for a rejected time) come before those
\* of the date part (three writes, none for a rejected date).  It returns
\* MCP7940_Error_None exactly when both the time and the date pass
\* validation and MCP7940_Error_Fail when either is rejected, and never
\* any other value.
C14_SetDateTime ==
    op = "setdatetime"
        => LET tv == validate_time(SubSeq(arg, 1, 3))
               dv == validate_date(SubSeq(arg, 4, 6))
           IN  /\ ret \in { MCP7940_Error_None, MCP7940_Error_Fail }
               /\ (ret = MCP7940_Error_None <=> (tv /\ dv))
               /\ (ret = MCP7940_Error_Fail <=> (~tv \/ ~dv))
               /\ BusAddressSeq
                     = (IF tv THEN << MCP7940_RTCHOUR, MCP7940_RTCMIN,
                                      MCP7940_RTCSEC, OscillatorRegister,
                                      OscillatorRegister >>
                              ELSE << >>)
                       \o (IF dv THEN << MCP7940_RTCDATE, MCP7940_RTCMTH,
                                         MCP7940_RTCYEAR >>
                                 ELSE << >>)

\* a rejected time with an accepted date: the call fails although the date
\* was written
C14_Witness ==
    /\ op = "setdatetime"
    /\ arg = << 24, 59, 58, 1, 12, 99 >>
    /\ ret = MCP7940_Error_Fail
    /\ regs[MCP7940_RTCDATE] = 1
    /\ regs[MCP7940_RTCHOUR] = pre[MCP7940_RTCHOUR]

\* the packed BCD byte of a magnitude below 100
Packed(v) == (v \div 10) * 16 + (v % 10)

WithBit(b, k) == b + (2 ^ k) * (1 - Bit(b, k))

WithoutBit(b, k) == b - (2 ^ k) * Bit(b, k)

\* the kinds of the transactions of the last call, in order
BusKindSeq == [i \in DOMAIN bus |-> bus[i][1]]

\* C16 (SpecConfig): battery backup control, which mcp7940_init runs first
\* with Enable in a battery build and Disable otherwise, is a read of
\* RTCWKDAY followed by a write of RTCWKDAY and nothing else: the byte
\* written, and the content of RTCWKDAY after the call, is the byte read
\* with bit 3 (VBATEN) set for Enable and cleared for Disable; the weekday
\* field, PWRFAIL, OSCRUN and bits 6..7 are as they were, and the rest of
\* the call does not write RTCWKDAY again.
C16_Battery ==
    op = "init"
        => LET old  == pre[MCP7940_RTCWKDAY]
               want == IF cfg.battery THEN WithBit(old, 3) ELSE WithoutBit(old, 3)
           IN  /\ bus[1] = << "R", MCP7940_RTCWKDAY, old >>
               /\ bus[2] = << "W", MCP7940_RTCWKDAY, want >>
               /\ regs[MCP7940_RTCWKDAY] = want
               /\ \A k \in (0 .. 7) \ { 3 } :
                      Bit(regs[MCP7940_RTCWKDAY], k) = Bit(old, k)
               /\ Bit(regs[MCP7940_RTCWKDAY], 3) = (IF cfg.battery THEN 1 ELSE 0)
               /\ \A i \in 3 .. Len(bus) : bus[i][2] # MCP7940_RTCWKDAY

\* a build without battery backup on a register holding 0xFF: only VBATEN
\* is cleared
C16_Witness ==
    /\ op = "init"
    /\ ~cfg.battery
    /\ pre[MCP7940_RTCWKDAY] = 255
    /\ regs[MCP7940_RTCWKDAY] = 247

\* C17 (SpecConfig): mcp7940_oscillator reads one register and writes it
\* back, and touches no other: RTCSEC with bit 7 (ST) set for Enable and
\* cleared for Disable in a crystal build, CONTROL with bit 3 (EXTOSC) set
\* or cleared in an external-clock build.  The other bits of the register
\* and every other register, CONTROL respectively RTCSEC included, are
\* unchanged.
C17_Oscillator ==
    op = "oscillator"
        => LET a    == IF cfg.extosc THEN MCP7940_CONTROL ELSE MCP7940_RTCSEC
               k    == IF cfg.extosc THEN 3 ELSE 7
               want == IF arg[1] = MCP7940_Mode_Enable
                       THEN WithBit(pre[a], k) ELSE WithoutBit(pre[a], k)
           IN  /\ bus = << << "R", a, pre[a] >>, << "W", a, want >> >>
               /\ regs[a] = want
               /\ \A j \in (0 .. 7) \ { k } : Bit(regs[a], j) = Bit(pre[a], j)
               /\ \A b \in Addr \ { a } : regs[b] = pre[b]

\* external-clock build, Disable: CONTROL goes from 0xCB to 0xC3 and RTCSEC
\* keeps its ST bit
C17_Witness ==
    /\ op = "oscillator"
    /\ cfg.extosc
    /\ arg = << MCP7940_Mode_Disable >>
    /\ pre[MCP7940_CONTROL] = 203
    /\ regs[MCP7940_CONTROL] = 195
    /\ regs[MCP7940_RTCSEC] = 216

\* C18 (SpecConfig): in a build with the MFP pin as an output,
\* mcp7940_mfp_output reads CONTROL and writes it back with bit 7 (OUT) set
\* for Enable and cleared for Disable; the other control bits and every
\* other register are unchanged.
C18_MfpOutput ==
    op = "mfp_output"
        => LET old  == pre[MCP7940_CONTROL]
               want == IF arg[1] = MCP7940_Mode_Enable
                       THEN WithBit(old, 7) ELSE WithoutBit(old, 7)
           IN  /\ cfg.mfp = MCP7940_MFP_MODE_OUTPUT
               /\ bus = << << "R", MCP7940_CONTROL, old >>,
                           << "W", MCP7940_CONTROL, want >> >>
               /\ regs[MCP7940_CONTROL] = want
               /\ \A j \in 0 .. 6 : Bit(regs[MCP7940_CONTROL], j) = Bit(old, j)
               /\ \A b \in Addr \ { MCP7940_CONTROL } : regs[b] = pre[b]

\* Enable on a CONTROL of 0x4B: OUT is set and SQWEN, EXTOSC and the
\* prescaler bits stay
C18_Witness ==
    /\ op = "mfp_output"
    /\ arg = << MCP7940_Mode_Enable >>
    /\ pre[MCP7940_CONTROL] = 75
    /\ regs[MCP7940_CONTROL] = 203

\* the addresses of hour, minute, day and month in the blocks of the
\* current time, the power-down stamp and the power-up stamp, as the data
\* sheet numbers them
BlockHour == << 2, 25, 29 >>

BlockMinute == << 1, 24, 28 >>

BlockDay == << 4, 26, 30 >>

BlockMonth == << 5, 27, 31 >>

\* the addresses mcp7940_time and mcp7940_date are to read for a register set
TimeAddresses(reg) ==
    << BlockHour[reg + 1], BlockMinute[reg + 1] >>
        \o (IF reg = MCP7940_Register_Current_Time THEN << 0 >> ELSE << >>)

DateAddresses(reg) ==
    << BlockDay[reg + 1], BlockMonth[reg + 1] >>
        \o (IF reg = MCP7940_Register_Current_Time THEN << 6 >> ELSE << >>)

\* C19 (SpecRead): register block selection.  For each register set, hour,
\* minute, day and month are read from the addresses of that set (0x02,
\* 0x01, 0x04, 0x05 for the current time, 0x19, 0x18, 0x1A, 0x1B for the
\* power-down stamp, 0x1D, 0x1C, 0x1E, 0x1F for the power-up stamp) and
\* decoded from the bytes stored there, and no address of another block is
\* read.  mcp7940_weekday returns the low three bits of RTCWKDAY for the
\* current time and bits 7..5 of PWRDNMTH or PWRUPMTH, shifted down by 5,
\* for the stamps, always a value in 0..7.  mcp7940_datetime reads the time
\* and then the date from the same register set.
C19_BlockSelection ==
    /\ op \in { "time", "datetime" }
          => /\ time[1] = Bcd(pre[BlockHour[arg[1] + 1]], 2)
             /\ time[2] = Bcd(pre[BlockMinute[arg[1] + 1]], 3)
    /\ op \in { "date", "datetime" }
          => /\ date[1] = Bcd(pre[BlockDay[arg[1] + 1]], 2)
             /\ date[2] = Bcd(pre[BlockMonth[arg[1] + 1]], 1)
    /\ op = "time" => BusAddressSeq = TimeAddresses(arg[1])
    /\ op = "date" => BusAddressSeq = DateAddresses(arg[1])
    /\ op = "datetime"
          => BusAddressSeq = TimeAddresses(arg[1]) \o DateAddresses(arg[1])
    /\ op \in { "time", "date", "datetime", "weekday" }
          => /\ \A i \in DOMAIN bus : bus[i] = << "R", bus[i][2], pre[bus[i][2]] >>
             /\ regs = pre
    /\ op = "weekday"
          => /\ ret \in 0 .. 7
             /\ arg[1] = MCP7940_Register_Current_Time
                   => /\ BusAddressSeq = << 3 >>
                      /\ ret = pre[3] % 8
             /\ arg[1] = MCP7940_Register_Power_Down_Time
                   => /\ BusAddressSeq = << 27 >>
                      /\ ret = pre[27] \div 32
             /\ arg[1] = MCP7940_Register_Power_Up_Time
                   => /\ BusAddressSeq = << 31 >>
                      /\ ret = pre[31] \div 32

\* the power-up stamp of the time-keeping image is read as 09:07:00 on
\* day 1 of month 3, from the four registers 0x1D, 0x1C, 0x1E, 0x1F
C19_Witness ==
    /\ op = "datetime"
    /\ arg = << MCP7940_Register_Power_Up_Time >>
    /\ pre = Regs(RunningImage)
    /\ time = << 9, 7, 0 >>
    /\ date = << 1, 3, 0 >>
    /\ BusAddressSeq = << 29, 28, 30, 31 >>

\* C20 (SpecConfig): initialization order.  mcp7940_init issues six
\* transactions: the read and the write of RTCWKDAY of the battery-backup
\* step, a read of CONTROL, a write of CONTROL, and the read and the write
\* of the oscillator enable (on RTCSEC in a crystal build, on CONTROL in an
\* external-clock build).  The write that sets the enable bit is the last
\* transaction, so the configuration write of CONTROL comes before it and
\* nothing is written after it.
C20_InitOrder ==
    op = "init"
        => /\ BusKindSeq = << "R", "W", "R", "W", "R", "W" >>
           /\ BusAddressSeq = << MCP7940_RTCWKDAY, MCP7940_RTCWKDAY,
                                 MCP7940_CONTROL, MCP7940_CONTROL,
                                 OscillatorRegister, OscillatorRegister >>
           /\ Bit(bus[Len(bus)][3], IF cfg.extosc THEN 3 ELSE 7) = 1
           /\ bus[Len(bus)][3] = WithBit(bus[Len(bus) - 1][3],
                                         IF cfg.extosc THEN 3 ELSE 7)
           /\ regs[OscillatorRegister] = bus[Len(bus)][3]

\* crystal build on the power-on image: ST is set by the sixth transaction,
\* after CONTROL was written
C20_Witness ==
    /\ op = "init"
    /\ ~cfg.extosc
    /\ pre = PowerOnImage
    /\ bus[4][1] = "W" /\ bus[4][2] = MCP7940_CONTROL
    /\ bus[6] = << "W", MCP7940_RTCSEC, 128 >>
    /\ regs[MCP7940_RTCSEC] = 128

\* the byte the last call of mcp7940_init wrote to CONTROL before it enabled
\* the oscillator, and the byte it had read from CONTROL just before
ControlWritten == bus[4][3]

ControlRead == bus[3][3]

\* C21 (SpecInit): initialization control byte.  Of the CONTROL value just
\* read only bit 3 (EXTOSC) is in the byte mcp7940_init writes to CONTROL;
\* every other bit is a function of the configuration: OUT (7) is clear,
\* CSTRIM (2) is set exactly with coarse trim, SQWEN (6) is set exactly in
\* square-wave mode, the alarm bits (5..4) are the configured routing in
\* alarm mode and clear otherwise, so SQWEN and the alarm bits are never
\* set together and output mode sets neither; bits 1..0 are clear or the
\* configured prescaler.
C21_InitControlByte ==
    op = "init"
        => /\ bus[3] = << "R", MCP7940_CONTROL, pre[MCP7940_CONTROL] >>
           /\ bus[4][1] = "W" /\ bus[4][2] = MCP7940_CONTROL
           /\ Bit(ControlWritten, 3) = Bit(ControlRead, 3)
           /\ Bit(ControlWritten, 7) = 0
           /\ Bit(ControlWritten, 2) = (IF cfg.crstrim THEN 1 ELSE 0)
           /\ Bit(ControlWritten, 6)
                 = (IF cfg.mfp = MCP7940_MFP_MODE_SQUARE_WAVE THEN 1 ELSE 0)
           /\ (ControlWritten \div 16) % 4
                 = (IF cfg.mfp = MCP7940_MFP_MODE_ALARM
                    THEN cfg.alarm \div 16 ELSE 0)
           /\ ~(Bit(ControlWritten, 6) = 1 /\ (ControlWritten \div 16) % 4 # 0)
           /\ ControlWritten % 4 \in { 0, cfg.prescaler }
           /\ (cfg.mfp # MCP7940_MFP_MODE_SQUARE_WAVE => ControlWritten % 4 = 0)

\* alarm mode routed to alarm 0, no coarse trim, CONTROL holding 0xFF: the
\* byte written is EXTOSC | ALM0EN
C21_Witness ==
    /\ op = "init"
    /\ cfg.mfp = MCP7940_MFP_MODE_ALARM
    /\ cfg.alarm = MCP7940_ALM0EN_bm
    /\ ~cfg.crstrim
    /\ pre[MCP7940_CONTROL] = 255
    /\ ControlWritten = 24

\* C22 as stated (SpecInit): in square-wave mode the byte written to
\* CONTROL has SQWEN set and carries the configured prescaler in
\* SQWFS1:0, with and without coarse trim.
C22_AsStated ==
    (op = "init" /\ cfg.mfp = MCP7940_MFP_MODE_SQUARE_WAVE)
        => /\ Bit(ControlWritten, 6) = 1
           /\ ControlWritten % 4 = cfg.prescaler

\* C22 amended (SpecInit): in square-wave mode the byte written to CONTROL
\* has SQWEN set in every build.  The configured prescaler is in SQWFS1:0
\* only without coarse trim; with coarse trim CSTRIM is set and SQWFS1:0 are
\* written as 00, whatever prescaler is configured.
C22_SquareWave ==
    (op = "init" /\ cfg.mfp = MCP7940_MFP_MODE_SQUARE_WAVE)
        => /\ Bit(ControlWritten, 6) = 1
           /\ (~cfg.crstrim
                  => (ControlWritten % 4 = cfg.prescaler
                        /\ Bit(ControlWritten, 2) = 0))
           /\ (cfg.crstrim
                  => (ControlWritten % 4 = 0 /\ Bit(ControlWritten, 2) = 1))

\* coarse trim with the 32.768 kHz prescaler configured: the byte written
\* is SQWEN | CSTRIM, without the prescaler
C22_Witness ==
    /\ op = "init"
    /\ cfg.mfp = MCP7940_MFP_MODE_SQUARE_WAVE
    /\ cfg.crstrim
    /\ cfg.prescaler = 3
    /\ pre[MCP7940_CONTROL] = 0
    /\ ControlWritten = 68

\* C23 (SpecClock): a mcp7940_settime that writes returns
\* MCP7940_Error_None and issues five transactions in this order: the
\* writes of the BCD bytes of hour to RTCHOUR, minute to RTCMIN and second
\* to RTCSEC, each the whole byte (for a second in 0..59 the byte written
\* to RTCSEC has ST clear), then the read and the write of the oscillator
\* enable.  In a crystal build the enable reads RTCSEC back and writes it
\* with ST set, so the call ends with RTCSEC = 0x80 | bcd(second); in an
\* external-clock build RTCSEC ends as bcd(second) and EXTOSC is set in
\* CONTROL.  A mcp7940_settime that returns MCP7940_Error_None has written.
C23_SetTimeSequence ==
    /\ (op = "settime" /\ ret = MCP7940_Error_None) => bus # << >>
    /\ (op = "settime" /\ bus # << >>)
          => /\ ret = MCP7940_Error_None
             /\ Len(bus) = 5
             /\ bus[1] = << "W", MCP7940_RTCHOUR, Packed(arg[1]) >>
             /\ bus[2] = << "W", MCP7940_RTCMIN, Packed(arg[2]) >>
             /\ bus[3] = << "W", MCP7940_RTCSEC, Packed(arg[3]) >>
             /\ (arg[3] \in 0 .. 59 => Bit(bus[3][3], 7) = 0)
             /\ regs[MCP7940_RTCHOUR] = Packed(arg[1])
             /\ regs[MCP7940_RTCMIN] = Packed(arg[2])
             /\ (~cfg.extosc
                   => /\ bus[4] = << "R", MCP7940_RTCSEC, Packed(arg[3]) >>
                      /\ bus[5] = << "W", MCP7940_RTCSEC,
                                     WithBit(Packed(arg[3]), 7) >>
                      /\ regs[MCP7940_RTCSEC] = WithBit(Packed(arg[3]), 7)
                      /\ regs[MCP7940_CONTROL] = pre[MCP7940_CONTROL])
             /\ (cfg.extosc
                   => /\ bus[4] = << "R", MCP7940_CONTROL, pre[MCP7940_CONTROL] >>
                      /\ bus[5] = << "W", MCP7940_CONTROL,
                                     WithBit(pre[MCP7940_CONTROL], 3) >>
                      /\ regs[MCP7940_RTCSEC] = Packed(arg[3]))

\* crystal build, 23:59:19 written: RTCSEC is written as 0x19 and then as
\* 0x99
C23_Witness ==
    /\ op = "settime"
    /\ ~cfg.extosc
    /\ arg = << 23, 59, 19 >>
    /\ ret = MCP7940_Error_None
    /\ bus[3] = << "W", MCP7940_RTCSEC, 25 >>
    /\ bus[5] = << "W", MCP7940_RTCSEC, 153 >>
    /\ regs[MCP7940_RTCSEC] = 153


\* C24 (SpecTick): a current-time read is not atomic.  mcp7940_datetime for
\* the current time is six separate read transactions, RTCHOUR, RTCMIN,
\* RTCSEC, RTCDATE, RTCMTH, RTCYEAR, each register read exactly once and
\* nothing written: no register is read again and nothing holds the clock.
\* Each returned field is the value its register held at its own
\* transaction, so the pair is one the device held only if the clock did
\* not tick during the call.  The witness is a call that returns a pair
\* the device never held.
C24_NotAtomic ==
    (op = "datetime" /\ pc = 0) =>
        /\ BusKindSeq = << "R", "R", "R", "R", "R", "R" >>
        /\ BusAddressSeq = << MCP7940_RTCHOUR, MCP7940_RTCMIN, MCP7940_RTCSEC,
                              MCP7940_RTCDATE, MCP7940_RTCMTH, MCP7940_RTCYEAR >>
        /\ time = << Bcd(bus[1][3], 2), Bcd(bus[2][3], 3), Bcd(bus[3][3], 3) >>
        /\ date = << Bcd(bus[4][3], 2), Bcd(bus[5][3], 1), Bcd(bus[6][3], 4) >>
        /\ (ticks = 0 => regs = pre)
        /\ (Cardinality(held) = 1 => << time, date >> \in held)

\* a call begun at 23:59:58 on 31.12.99 returns 23:59:59 with the date
\* 01.01.00: the clock ticked before the seconds and before the date were
\* read, and the device never held that pair
C24_Witness ==
    /\ op = "datetime"
    /\ pc = 0
    /\ Snapshot(pre) = << << 23, 59, 58 >>, << 31, 12, 99 >> >>
    /\ time = << 23, 59, 59 >>
    /\ date = << 1, 1, 0 >>
    /\ << time, date >> \notin held
    /\ held = { << << 23, 59, 58 >>, << 31, 12, 99 >> >>,
                << << 23, 59, 59 >>, << 31, 12, 99 >> >>,
                << << 0, 0, 0 >>, << 1, 1, 0 >> >> }


\* the calls one register access makes to the bus layer and the timer
WriteFrame(a, b) ==
    << << "twi_start", << >> >>,
       << "twi_address", << MCP7940_ADDRESS, "TWI_WRITE" >> >>,
       << "twi_set", << a >> >>,
       << "twi_set", << b >> >>,
       << "twi_stop", << >> >>,
       << "systick_timer_wait_ms", << MCP7940_IO_TIMEOUT_MS >> >> >>

ReadFrame(a, v) ==
    << << "twi_start", << >> >>,
       << "twi_address", << MCP7940_ADDRESS, "TWI_WRITE" >> >>,
       << "twi_set", << a >> >>,
       << "twi_address", << MCP7940_ADDRESS, "TWI_READ" >> >>,
       << "twi_get", << v, "TWI_NACK" >> >>,
       << "twi_stop", << >> >>,
       << "systick_timer_wait_ms", << MCP7940_IO_TIMEOUT_MS >> >> >>

RECURSIVE Framed(_)
Framed(k) ==
    IF k = 0
    THEN << >>
    ELSE Framed(k - 1) \o (IF bus[k][1] = "W"
                           THEN WriteFrame(bus[k][2], bus[k][3])
                           ELSE ReadFrame(bus[k][2], bus[k][3]))

WireCalls(name) == { i \in DOMAIN wire : wire[i][1] = name }

\* C25 (Spec): bus framing.  Every register access of a call is one bus
\* transaction: start, the device addressed for writing, the register
\* address, then for a write the data byte, for a read the device addressed
\* for reading and one byte received with NACK; then stop, then the settle
\* delay.  The calls on the wire are exactly these frames, one per access,
\* in the order of the accesses: there are as many starts as stops as
\* delays as accesses, and every start after the first comes directly after
\* the delay that follows the previous stop.
C25_Framing ==
    /\ wire = Framed(Len(bus))
    /\ Cardinality(WireCalls("twi_start")) = Len(bus)
    /\ Cardinality(WireCalls("twi_stop")) = Len(bus)
    /\ Cardinality(WireCalls("systick_timer_wait_ms")) = Len(bus)
    /\ \A i \in WireCalls("twi_start") :
           i > 1 => /\ wire[i - 1] = << "systick_timer_wait_ms",
                                        << MCP7940_IO_TIMEOUT_MS >> >>
                    /\ wire[i - 2] = << "twi_stop", << >> >>
    /\ wire # << >> => wire[Len(wire)] = << "systick_timer_wait_ms",
                                            << MCP7940_IO_TIMEOUT_MS >> >>

\* a call that stopped the oscillator of a crystal build: one read and one
\* write of RTCSEC, thirteen calls on the wire, the second start directly
\* after the first delay
C25_Witness ==
    /\ op = "oscillator"
    /\ arg = << MCP7940_Mode_Disable >>
    /\ BusKindSeq = << "R", "W" >>
    /\ BusAddressSeq = << MCP7940_RTCSEC, MCP7940_RTCSEC >>
    /\ Len(wire) = 13
    /\ wire[6] = << "twi_stop", << >> >>
    /\ wire[7] = << "systick_timer_wait_ms", << MCP7940_IO_TIMEOUT_MS >> >>
    /\ wire[8] = << "twi_start", << >> >>


\* C26 (SpecDateTime): mcp7940_setdatetime does not stop at the first
\* failure.  With a rejected time and an accepted date it returns
\* MCP7940_Error_Fail after writing RTCDATE, RTCMTH and RTCYEAR, and these
\* three writes are all it puts on the bus: the time registers and the
\* oscillator are left alone.  With an accepted time and a rejected date it
\* returns MCP7940_Error_Fail after writing the three time registers and
\* enabling the oscillator, and the date registers are left alone.
C26_NoShortCircuit ==
    op = "setdatetime"
        => LET tv == validate_time(SubSeq(arg, 1, 3))
               dv == validate_date(SubSeq(arg, 4, 6))
           IN  /\ (~tv /\ dv)
                     => /\ ret = MCP7940_Error_Fail
                        /\ bus = << << "W", MCP7940_RTCDATE, Packed(arg[4]) >>,
                                    << "W", MCP7940_RTCMTH, Packed(arg[5]) >>,
                                    << "W", MCP7940_RTCYEAR, Packed(arg[6]) >> >>
                        /\ regs[MCP7940_RTCDATE] = Packed(arg[4])
                        /\ regs[MCP7940_RTCMTH] = Packed(arg[5])
                        /\ regs[MCP7940_RTCYEAR] = Packed(arg[6])
                        /\ \A a \in Addr \ { MCP7940_RTCDATE, MCP7940_RTCMTH,
                                             MCP7940_RTCYEAR } : regs[a] = pre[a]
               /\ (tv /\ ~dv)
                     => /\ ret = MCP7940_Error_Fail
                        /\ Len(bus) = 5
                        /\ bus[1] = << "W", MCP7940_RTCHOUR, Packed(arg[1]) >>
                        /\ bus[2] = << "W", MCP7940_RTCMIN, Packed(arg[2]) >>
                        /\ bus[3] = << "W", MCP7940_RTCSEC, Packed(arg[3]) >>
                        /\ bus[4][1] = "R"
                        /\ bus[4][2] = OscillatorRegister
                        /\ bus[5] = << "W", OscillatorRegister,
                                       WithBit(bus[4][3], IF cfg.extosc THEN 3 ELSE 7) >>
                        /\ regs[MCP7940_RTCHOUR] = Packed(arg[1])
                        /\ regs[MCP7940_RTCMIN] = Packed(arg[2])
                        /\ regs[OscillatorRegister] = bus[5][3]
                        /\ \A a \in { MCP7940_RTCDATE, MCP7940_RTCMTH, MCP7940_RTCYEAR } :
                               regs[a] = pre[a]

\* crystal build, midnight with day 255: the call fails, the time registers
\* hold 00:00:00 with ST set and the date registers still hold 31.12.99
C26_Witness ==
    /\ op = "setdatetime"
    /\ ~cfg.extosc
    /\ arg = << 0, 0, 0, 255, 1, 0 >>
    /\ ret = MCP7940_Error_Fail
    /\ pre[MCP7940_RTCHOUR] = 35
    /\ regs[MCP7940_RTCHOUR] = 0
    /\ regs[MCP7940_RTCMIN] = 0
    /\ regs[MCP7940_RTCSEC] = 128
    /\ regs[MCP7940_RTCDATE] = 49
    /\ regs[MCP7940_RTCMTH] = 50
    /\ regs[MCP7940_RTCYEAR] = 153


\* C27 (SpecTrim): a failed verification is not rolled back.  When
\* mcp7940_trimming returns MCP7940_Error_Fail the write of the new trim
\* byte has been issued as the first transaction, it is the only write of
\* the call, and the call ends with the verifying read: the driver writes
\* nothing after the mismatch, so OSCTRIM holds whatever the device made of
\* that one write, the byte the verifying read returned.
C27_NoRollback ==
    (op = "trimming" /\ ret = MCP7940_Error_Fail)
        => LET new == (arg[2] % 128)
                      + (IF arg[1] = MCP7940_Trim_Add THEN 128 ELSE 0)
           IN  /\ bus[1] = << "W", MCP7940_OSCTRIM, new >>
               /\ { i \in DOMAIN bus : bus[i][1] = "W" } = { 1 }
               /\ bus[Len(bus)][1] = "R"
               /\ bus[Len(bus)][3] # new
               /\ regs[MCP7940_OSCTRIM] = bus[Len(bus)][3]

\* adding 72 over a previous content of 133 on a bus that lost the write:
\* 200 was written, 133 read back, the call failed and wrote nothing more
C27_Witness ==
    /\ op = "trimming"
    /\ arg = << MCP7940_Trim_Add, 72 >>
    /\ ret = MCP7940_Error_Fail
    /\ pre[MCP7940_OSCTRIM] = 133
    /\ bus = << << "W", MCP7940_OSCTRIM, 200 >>, << "R", MCP7940_OSCTRIM, 133 >> >>
    /\ regs[MCP7940_OSCTRIM] = 133


ReadOnlyOps == { "status", "weekday", "time", "date", "datetime", "leapyear" }

\* C28 (Spec): the reading functions write nothing.  Every transaction of a
\* call of mcp7940_status, mcp7940_weekday, mcp7940_time, mcp7940_date,
\* mcp7940_datetime or mcp7940_leapyear is a read, and it issues at least
\* one; mcp7940_weekday_string issues no transaction and makes no call to
\* the bus layer at all.  After any of them every register holds the value
\* it held before the call, whatever was called before.
C28_ReadOnly ==
    /\ op \in ReadOnlyOps
          => /\ bus # << >>
             /\ \A i \in DOMAIN bus : bus[i][1] = "R"
             /\ regs = pre
    /\ op = "weekday_string"
          => /\ bus = << >>
             /\ wire = << >>
             /\ regs = pre

\* a current-time read after a date was set: six reads, the date just set is
\* returned and the registers are as mcp7940_setdate left them
C28_Witness ==
    /\ op = "datetime"
    /\ prev[1] = "setdate"
    /\ prev[3] = MCP7940_Error_None
    /\ Len(bus) = 6
    /\ \A i \in DOMAIN bus : bus[i][1] = "R"
    /\ regs = pre
    /\ date # NoDate


\* C29 (SpecLife): the battery-backup bit is stable.  Once mcp7940_init has
\* completed, the VBATEN bit of RTCWKDAY is set exactly when battery backup
\* is configured, after every later call of every public function; each
\* call other than mcp7940_init leaves VBATEN as it found it; and
\* mcp7940_status reports MCP7940_Status_Battery_Enabled exactly when
\* battery backup is configured.
C29_VbatenStable ==
    /\ inited => (Bit(regs[MCP7940_RTCWKDAY], 3) = 1 <=> cfg.battery)
    /\ op \notin { "none", "init" }
          => Bit(regs[MCP7940_RTCWKDAY], 3) = Bit(pre[MCP7940_RTCWKDAY], 3)
    /\ (inited /\ op = "status")
          => (BitAnd(ret, MCP7940_Status_Battery_Enabled)
                  = MCP7940_Status_Battery_Enabled <=> cfg.battery)

\* battery backup configured: after mcp7940_init and a mcp7940_setweekday
\* that rewrote RTCWKDAY, mcp7940_status still reports the battery enabled
C29_Witness ==
    /\ inited
    /\ cfg.battery
    /\ prev[1] = "setweekday"
    /\ prev[3] = MCP7940_Error_None
    /\ op = "status"
    /\ BitAnd(ret, MCP7940_Status_Battery_Enabled) = MCP7940_Status_Battery_Enabled
    /\ Bit(regs[MCP7940_RTCWKDAY], 3) = 1

\* the transactions of the last call that write RTCSEC with ST clear
StClearingWrites ==
    { i \in DOMAIN bus : /\ bus[i][1] = "W"
                         /\ bus[i][2] = MCP7940_RTCSEC
                         /\ Bit(bus[i][3], 7) = 0 }

\* C30 (SpecLife): in a crystal build the ST bit is set at the end of every
\* call.  Once mcp7940_init or mcp7940_oscillator(Enable) has completed and
\* no mcp7940_oscillator(Disable) has been called since, ST of RTCSEC is set
\* after every call of every public function.  ST is written clear only by
\* a mcp7940_settime that passed validation (called by itself or by
\* mcp7940_setdatetime), in its third transaction, the write of the seconds
\* to RTCSEC; the next two transactions of that call read RTCSEC and write
\* it back with ST set.
C30_StAtBoundaries ==
    (~cfg.extosc /\ enabled)
        => /\ Bit(regs[MCP7940_RTCSEC], 7) = 1
           /\ StClearingWrites # { }
                 => /\ op \in { "settime", "setdatetime" }
                    /\ StClearingWrites = { 3 }
                    /\ bus[4] = << "R", MCP7940_RTCSEC, bus[3][3] >>
                    /\ bus[5] = << "W", MCP7940_RTCSEC, WithBit(bus[3][3], 7) >>
           /\ (op = "settime" /\ ret = MCP7940_Error_None)
                 => StClearingWrites = { 3 }

\* crystal build: mcp7940_settime(09:10:19) after mcp7940_init wrote RTCSEC
\* as 0x19, with ST clear, and left it as 0x99
C30_Witness ==
    /\ ~cfg.extosc
    /\ enabled
    /\ prev[1] = "init"
    /\ op = "settime"
    /\ arg = << 9, 10, 19 >>
    /\ ret = MCP7940_Error_None
    /\ Bit(pre[MCP7940_RTCSEC], 7) = 1
    /\ StClearingWrites = { 3 }
    /\ regs[MCP7940_RTCSEC] = 153

=============================================================================
